---- MODULE Spec2Model ----
(***************************************************************************)
(* Playlist / playback-order controller of the MP3 player, as implemented  *)
(* by MainWindow in sai_mp3_player_full.py ("full") and in                 *)
(* sai_mp3_player_slick_autoplay_timer_voice_select_no_underscore.py       *)
(* ("autoplay").  One state machine covers both variants; the variable     *)
(* `variant` selects the code path wherever the two files differ.          *)
(*                                                                         *)
(* Strings that the code inspects character by character (search query,    *)
(* title, artist, album) are sequences of one-character strings.  Paths    *)
(* are opaque strings; registry indices are 0-based as in the code, so     *)
(* Python's seq[i] is seq[i + 1] here.                                     *)
(***************************************************************************)
EXTENDS Integers, Sequences, FiniteSets, TLC

\* ---------------------------------------------------------------- bounds
\* play_next is disabled once the history holds MaxHistory entries
MaxHistory == 2
\* the near-end poll is disabled once it has scheduled MaxScheduled callbacks
\* since the last load
MaxScheduled == 2
\* add_files of the slick variant is disabled once the registry would hold
\* more than MaxSlickTracks entries
MaxSlickTracks == 2
\* next of the slick variant is disabled once pos has reached MaxSlickPos
MaxSlickPos == 3

\* ------------------------------------------------------------ environment
Variants == {"full", "autoplay"}

\* Paths as the dialogs / drop events / playlist documents may spell them.
RawPaths == {"a", "./a", "j", "gone"}

\* str(Path(raw)): pathlib drops a leading "./" component.
PathStr(raw) == IF raw = "./a" THEN "a" ELSE raw

\* The audio files present on disk, by normalised path.
Files == {"a", "j"}

\* Path(raw).exists() while the audio files in `files` are on disk
exists_on(files, raw) == PathStr(raw) \in files

\* Path(raw).exists() during the session
exists(raw) == exists_on(Files, raw)

\* Path(p).stem of each file
Stem == [a |-> <<"a">>, j |-> <<"j">>]

\* What mutagen reports for each file; file "j" cannot be parsed
\* (MutagenFile returns None or raises), so only its path is known.
FileTags ==
    [a |-> [readable |-> TRUE, title |-> <<"x">>, artist |-> <<"y">>,
            album |-> <<"J", "z">>, length_ms |-> 2000],
     j |-> [readable |-> FALSE, title |-> <<>>, artist |-> <<>>,
            album |-> <<>>, length_ms |-> 0]]

\* Texts the user may type into the search box.
Queries == {<<>>, <<" ", "J">>}

\* ------------------------------------------------------- string helpers
\* str.lower() on one character
LowerChar(ch) ==
    CASE ch = "J" -> "j"
      [] ch = "Z" -> "z"
      [] ch = "X" -> "x"
      [] OTHER -> ch

\* str.lower()
Lower(s) == [i \in 1..Len(s) |-> LowerChar(s[i])]

RECURSIVE LStrip(_)
LStrip(s) == IF s # <<>> /\ Head(s) = " " THEN LStrip(Tail(s)) ELSE s

RECURSIVE RStrip(_)
RStrip(s) ==
    IF s # <<>> /\ s[Len(s)] = " " THEN RStrip(SubSeq(s, 1, Len(s) - 1)) ELSE s

\* str.strip()
Strip(s) == RStrip(LStrip(s))

\* Python's `needle in hay` for strings
Contains(needle, hay) ==
    \E i \in 0..(Len(hay) - Len(needle)) :
        SubSeq(hay, i + 1, i + Len(needle)) = needle

\* --------------------------------------------------------- list helpers
\* Python's `x in seq`
InSeq(x, seq) == \E i \in 1..Len(seq) : seq[i] = x

\* Python's seq.index(x), 0-based; x must occur in seq
IndexOf(seq, x) == (CHOOSE i \in 1..Len(seq) :
                       seq[i] = x /\ \A j \in 1..(i - 1) : seq[j] # x) - 1

\* every outcome random.shuffle(base) can produce
Shuffles(base) ==
    {[i \in 1..Len(base) |-> base[f[i]]] : f \in Permutations(1..Len(base))}

\* ------------------------------------------------------------------ state
VARIABLES
    variant,          \* which source file's MainWindow this run executes
    tracks,           \* self.tracks: the registry, a sequence of Track records
    query,            \* self.search.text(): raw text of the search box
    visible_indices,  \* self.visible_indices
    play_order,       \* self.play_order
    play_pos,         \* self.play_pos
    history,          \* self.history
    shuffle,          \* self.shuffle
    repeat_all,       \* self.repeat_all
    repeat_one,       \* self.repeat_one
    lastOp,           \* the handler that ran last
    effects,          \* engine commands, button texts and message boxes of the last handler
    nextTrace,        \* tracks made current by the current run of play_next calls
    user_seeking,     \* self._user_seeking
    last_known_length_ms,        \* self._last_known_length_ms (autoplay)
    ended_fired_for_track_idx,   \* self._ended_fired_for_track_idx (autoplay)
    deferred_go,      \* a QTimer.singleShot(0, _go) callback waits in the event loop
    engine_state,     \* the VLC player: "none" (no media), "stopped", "active"
    scheduled_since_load, \* _go callbacks scheduled since the last _load_current_and_play
    tts,              \* self._tts: the TTSAnnouncer, its worker thread and its caller
    end_thread,       \* the engine's event thread inside the end-of-media callback
    slick,            \* the MainWindow of sai_mp3_player_slick.py
    before_next,      \* current track and history before the play_next that ran last
    watch             \* which track the engine holds and which the timer fields refer to

flags == <<shuffle, repeat_all, repeat_one>>

\* watch before any track is loaded: no medium in the engine, no length
\* cached, no callback scheduled, no playthrough near its end, the last
\* seek did not use the cached length
Unwatching == [loaded |-> -1, length_for |-> -1, go_for |-> -1,
               near_end |-> FALSE, fell_back |-> FALSE]

\* before_next when the handler that ran last was not play_next
NoNext == [valid |-> FALSE, cur |-> -1, history |-> <<>>]

\* State of the position timer and the seek slider
timer == <<user_seeking, last_known_length_ms, ended_fired_for_track_idx,
           deferred_go, engine_state, scheduled_since_load>>

vars == <<variant, tracks, query, visible_indices, play_order, play_pos,
          history, shuffle, repeat_all, repeat_one, lastOp, effects, nextTrace,
          timer, tts, end_thread, slick, before_next, watch>>

\* Sessions in which the position timer, the seek slider and the announcer
\* are left out, and the end-of-media callback runs as one step
Idle == UNCHANGED <<timer, tts, end_thread, slick, before_next, watch>>

\* --------------------------------------------------------------- registry
\* Track(path=..., title=..., artist=..., album=..., duration_ms=...)
Track(path, title, artist, album, duration_ms) ==
    [path |-> path, title |-> title, artist |-> artist, album |-> album,
     duration_ms |-> duration_ms]

\* MainWindow._read_metadata(path): tags when mutagen can read the file,
\* title falling back to the file name stem, duration -1 when unknown.
\* Both variants compute the same record.
read_metadata(p) ==
    LET tags == FileTags[p]
        title == IF tags.readable /\ tags.title # <<>> THEN tags.title
                 ELSE Stem[p]
    IN  Track(p,
              title,
              IF tags.readable THEN tags.artist ELSE <<>>,
              IF tags.readable THEN tags.album ELSE <<>>,
              IF tags.readable THEN tags.length_ms ELSE -1)

\* Faulty duplicate test: compares the stored string with the path as
\* spelled, without normalising either.
is_duplicate_full_unnormalised(trks, raw) ==
    \E i \in 1..Len(trks) : trks[i].path = raw

\* The duplicate test of the full variant's _add_paths:
\*   any(Path(t.path) == p for t in self.tracks)
is_duplicate_full(trks, raw) ==
    \E i \in 1..Len(trks) : PathStr(trks[i].path) = PathStr(raw)

\* The loop of the full variant's _add_paths: the registry after importing
\* `paths` in order.
RECURSIVE add_paths_loop_full(_, _)
add_paths_loop_full(trks, paths) ==
    IF paths = <<>> THEN trks
    ELSE LET raw == Head(paths) IN
         IF ~exists(raw) \/ is_duplicate_full(trks, raw)
         THEN add_paths_loop_full(trks, Tail(paths))
         ELSE add_paths_loop_full(Append(trks, read_metadata(PathStr(raw))),
                                  Tail(paths))

\* existing = {str(Path(t.path)) for t in self.tracks}
existing_paths(trks) == {PathStr(trks[i].path) : i \in 1..Len(trks)}

\* The duplicate test of the autoplay variant's _add_paths:
\*   str(p) in existing
is_duplicate_autoplay(existing, raw) == PathStr(raw) \in existing

\* The loop of the autoplay variant's _add_paths, which also adds every
\* imported path to `existing`.
RECURSIVE add_paths_loop_autoplay(_, _, _)
add_paths_loop_autoplay(trks, existing, paths) ==
    IF paths = <<>> THEN trks
    ELSE LET raw == Head(paths) IN
         IF ~exists(raw) \/ is_duplicate_autoplay(existing, raw)
         THEN add_paths_loop_autoplay(trks, existing, Tail(paths))
         ELSE add_paths_loop_autoplay(
                  Append(trks, read_metadata(PathStr(raw))),
                  existing \cup {PathStr(raw)}, Tail(paths))

\* The registry _add_paths leaves behind in variant v.
add_paths_tracks(v, trks, paths) ==
    IF v = "full" THEN add_paths_loop_full(trks, paths)
    ELSE add_paths_loop_autoplay(trks, existing_paths(trks), paths)

\* ----------------------------------------------------------------- filter
\* f"{t.title} {t.artist} {t.album}".lower()
Hay(t) == Lower(t.title \o <<" ">> \o t.artist \o <<" ">> \o t.album)

\* The first loop of _apply_filter: the registry indices matching text `q`.
RECURSIVE filter_from(_, _, _)
filter_from(trks, q, i) ==
    IF i >= Len(trks) THEN <<>>
    ELSE (IF q = <<>> \/ Contains(q, Hay(trks[i + 1])) THEN <<i>> ELSE <<>>)
         \o filter_from(trks, q, i + 1)

\* Faulty filter: the query is stripped but not lower-cased.
apply_filter_indices_case_sensitive(trks, text) ==
    filter_from(trks, Strip(text), 0)

\* visible_indices as _apply_filter computes it from the registry and the
\* text of the search box.
apply_filter_indices(trks, text) == filter_from(trks, Lower(Strip(text)), 0)

\* -------------------------------------------------------------- sequencer
\* MainWindow._current_track_index
current_track_index(po, pos) ==
    IF pos < 0 \/ pos >= Len(po) THEN -1 ELSE po[pos + 1]

\* `base` after the optional random.shuffle(base) of _rebuild_play_order
shuffled_bases(vis, shuf) == IF shuf THEN Shuffles(vis) ELSE {vis}

\* Faulty cursor choice: the empty play order is not special-cased.
rebuild_pos_no_empty_case(base, keep_current, current_idx) ==
    IF keep_current /\ InSeq(current_idx, base)
    THEN IndexOf(base, current_idx)
    ELSE 0

\* Faulty cursor choice: keep_current is ignored.
rebuild_pos_always_first(base, keep_current, current_idx) ==
    IF base = <<>> THEN -1 ELSE 0

\* The cursor _rebuild_play_order chooses for the new order `base`, given
\* the registry index current_idx that was current before the rebuild.
rebuild_pos(base, keep_current, current_idx) ==
    IF base = <<>> THEN -1
    ELSE IF keep_current /\ InSeq(current_idx, base)
         THEN IndexOf(base, current_idx)
         ELSE 0

\* Faulty rebuild: with keep_current the old play order is kept as it is.
rebuild_play_order_stale(base, keep_current, po, pos) ==
    IF keep_current
    THEN [play_order |-> po, play_pos |-> pos]
    ELSE [play_order |-> base,
          play_pos |-> rebuild_pos(base, FALSE, current_track_index(po, pos))]

\* MainWindow._rebuild_play_order(keep_current) with the shuffle outcome
\* `base`, run on the sequencer state (po, pos).
rebuild_play_order(base, keep_current, po, pos) ==
    [play_order |-> base,
     play_pos |-> rebuild_pos(base, keep_current, current_track_index(po, pos))]

\* Every outcome of _apply_filter's trailing _rebuild_play_order(True).
apply_filter_rebuilds(vis, shuf, po, pos) ==
    {rebuild_play_order(base, TRUE, po, pos) : base \in shuffled_bases(vis, shuf)}

\* Every outcome of _apply_filter() followed by _rebuild_play_order(False),
\* the sequence _add_paths and load_playlist run.
refresh_rebuilds(vis, shuf, po, pos) ==
    UNION {{rebuild_play_order(base, FALSE, r.play_order, r.play_pos) :
               base \in shuffled_bases(vis, shuf)} :
           r \in apply_filter_rebuilds(vis, shuf, po, pos)}

\* -------------------------------------------------------------- transport
\* MainWindow._load_current_and_play: what it tells the engine and the
\* play/pause button for the sequencer state (po, pos).
load_current_and_play(trks, po, pos) ==
    LET idx == current_track_index(po, pos) IN
    IF idx = -1 THEN <<>>
    ELSE << <<"load_path", trks[idx + 1].path>>, <<"play">>,
            <<"btn_play_pause", "Pause">> >>

\* The sequencer state as the record the handler outcomes below update.
Seq0 == [play_order |-> play_order, play_pos |-> play_pos,
         history |-> history, effects |-> <<>>]

\* Faulty advance: the end test is `nxt > len(self.play_order)`, so the
\* cursor can step one past the last offset.
advance_off_by_one(hist) ==
    LET nxt == play_pos + 1 IN
    IF nxt > Len(play_order)
    THEN IF repeat_all
         THEN [Seq0 EXCEPT
                  !.history = hist,
                  !.play_pos = 0,
                  !.effects = load_current_and_play(tracks, play_order, 0)]
         ELSE [Seq0 EXCEPT
                  !.history = hist,
                  !.effects = << <<"stop">>, <<"btn_play_pause", "Play">> >>]
    ELSE [Seq0 EXCEPT
             !.history = hist,
             !.play_pos = nxt,
             !.effects = load_current_and_play(tracks, play_order, nxt)]

\* Faulty advance: `self.play_pos = nxt` runs before the end test, so a
\* stop leaves the cursor past the end.
advance_stop_moves_cursor(hist) ==
    LET nxt == play_pos + 1 IN
    IF nxt >= Len(play_order)
    THEN IF repeat_all
         THEN [Seq0 EXCEPT
                  !.history = hist,
                  !.play_pos = 0,
                  !.effects = load_current_and_play(tracks, play_order, 0)]
         ELSE [Seq0 EXCEPT
                  !.history = hist,
                  !.play_pos = nxt,
                  !.effects = << <<"stop">>, <<"btn_play_pause", "Play">> >>]
    ELSE [Seq0 EXCEPT
             !.history = hist,
             !.play_pos = nxt,
             !.effects = load_current_and_play(tracks, play_order, nxt)]

\* Faulty advance: under repeat_all the wrap restarts the last track
\* instead of going to offset 0.
advance_wrap_stays(hist) ==
    LET nxt == play_pos + 1 IN
    IF nxt >= Len(play_order)
    THEN IF repeat_all
         THEN [Seq0 EXCEPT
                  !.history = hist,
                  !.effects = load_current_and_play(
                                  tracks, play_order, play_pos)]
         ELSE [Seq0 EXCEPT
                  !.history = hist,
                  !.effects = << <<"stop">>, <<"btn_play_pause", "Play">> >>]
    ELSE [Seq0 EXCEPT
             !.history = hist,
             !.play_pos = nxt,
             !.effects = load_current_and_play(tracks, play_order, nxt)]

\* The part of play_next after the repeat_one test, with the history `hist`
\* the pushes left behind: move the cursor one step, wrapping under
\* repeat_all and stopping the engine otherwise, and play.
advance(hist) ==
    LET nxt == play_pos + 1 IN
    IF nxt >= Len(play_order)
    THEN IF repeat_all
         THEN [Seq0 EXCEPT
                  !.history = hist,
                  !.play_pos = 0,
                  !.effects = load_current_and_play(tracks, play_order, 0)]
         ELSE [Seq0 EXCEPT
                  !.history = hist,
                  !.effects = << <<"stop">>, <<"btn_play_pause", "Play">> >>]
    ELSE [Seq0 EXCEPT
             !.history = hist,
             !.play_pos = nxt,
             !.effects = load_current_and_play(tracks, play_order, nxt)]

\* The repeat_one branch of play_next and of the end-of-track handlers:
\* _load_current_and_play() on the unchanged cursor.
replay(hist) ==
    [Seq0 EXCEPT
        !.history = hist,
        !.effects = load_current_and_play(tracks, play_order, play_pos)]

\* Faulty push: play_next leaves the history alone.
pushed_history_none == history

\* self.history after play_next's `if cur != -1: self.history.append(cur)`
pushed_history ==
    LET cur == current_track_index(play_order, play_pos) IN
    IF cur # -1 THEN Append(history, cur) ELSE history

\* Faulty play_next: the repeat_one test is missing.
play_next_without_repeat_one ==
    IF play_order = <<>> THEN Seq0 ELSE advance(pushed_history)

\* MainWindow.play_next.  The full variant pushes the current index before
\* it tests repeat_one, the autoplay variant after.
play_next ==
    IF play_order = <<>> THEN Seq0
    ELSE IF repeat_one
    THEN replay(IF variant = "full" THEN pushed_history ELSE history)
    ELSE advance(pushed_history)

\* Faulty cursor step: an underflow is always clamped to 0, repeat_all or
\* not.
prev_pos_no_wrap(pos, n, rep_all) ==
    IF pos - 1 < 0 THEN 0 ELSE pos - 1

\* The cursor play_prev moves to when it does not use the history.
prev_pos(pos, n, rep_all) ==
    IF pos - 1 < 0 THEN (IF rep_all THEN n - 1 ELSE 0) ELSE pos - 1

\* The tail of play_prev: decrement the cursor and play.
prev_by_cursor(hist) ==
    LET prv == prev_pos(play_pos, Len(play_order), repeat_all) IN
    [Seq0 EXCEPT !.history = hist,
                 !.play_pos = prv,
                 !.effects = load_current_and_play(tracks, play_order, prv)]

\* MainWindow._play_by_track_index(idx) of the full variant, with history
\* `hist`: every outcome (the rebuild may shuffle).
play_by_track_index(idx, hist) ==
    IF idx < 0 \/ idx >= Len(tracks) THEN {[Seq0 EXCEPT !.history = hist]}
    ELSE IF InSeq(idx, play_order)
    THEN {[Seq0 EXCEPT
              !.history = hist,
              !.play_pos = IndexOf(play_order, idx),
              !.effects = load_current_and_play(
                              tracks, play_order, IndexOf(play_order, idx))]}
    ELSE {LET r == rebuild_play_order(base, FALSE, play_order, play_pos)
              pos == IF InSeq(idx, r.play_order)
                     THEN IndexOf(r.play_order, idx) ELSE r.play_pos
          IN  [play_order |-> r.play_order, play_pos |-> pos, history |-> hist,
               effects |-> load_current_and_play(tracks, r.play_order, pos)] :
          base \in shuffled_bases(visible_indices, shuffle)}

\* MainWindow.play_prev of the full variant: every outcome.
play_prev_full ==
    IF play_order = <<>> THEN {Seq0}
    ELSE IF history # <<>>
    THEN play_by_track_index(history[Len(history)],
                             SubSeq(history, 1, Len(history) - 1))
    ELSE {prev_by_cursor(history)}

\* MainWindow.play_prev of the autoplay variant.
play_prev_autoplay ==
    IF play_order = <<>> THEN Seq0
    ELSE IF history # <<>>
    THEN LET idx == history[Len(history)]
             popped == SubSeq(history, 1, Len(history) - 1)
         IN  IF InSeq(idx, play_order)
             THEN [Seq0 EXCEPT
                      !.history = popped,
                      !.play_pos = IndexOf(play_order, idx),
                      !.effects = load_current_and_play(
                                      tracks, play_order, IndexOf(play_order, idx))]
             ELSE prev_by_cursor(popped)
    ELSE prev_by_cursor(history)

play_prev == IF variant = "full" THEN play_prev_full ELSE {play_prev_autoplay}

\* _handle_track_end (full) and _maybe_autoplay_next._go (autoplay)
track_end == IF repeat_one THEN replay(history) ELSE play_next

\* The double-click handler from the resolved registry index on, in the
\* autoplay variant (the full variant calls _play_by_track_index).
double_click_autoplay(idx) ==
    IF InSeq(idx, play_order)
    THEN {[Seq0 EXCEPT
              !.play_pos = IndexOf(play_order, idx),
              !.effects = load_current_and_play(
                              tracks, play_order, IndexOf(play_order, idx))]}
    ELSE {LET r == rebuild_play_order(base, FALSE, play_order, play_pos)
              pos == IF InSeq(idx, r.play_order)
                     THEN IndexOf(r.play_order, idx) ELSE r.play_pos
          IN  [play_order |-> r.play_order, play_pos |-> pos,
               history |-> history,
               effects |-> load_current_and_play(tracks, r.play_order, pos)] :
          base \in shuffled_bases(visible_indices, shuffle)}

\* Faulty double-click: the list row is taken for the registry index, as if
\* no filter were applied.
on_item_double_clicked_row_as_index(row) ==
    IF row < 0 \/ row >= Len(visible_indices) THEN {Seq0}
    ELSE IF variant = "full"
         THEN play_by_track_index(row, history)
         ELSE double_click_autoplay(row)

\* MainWindow._on_item_double_clicked for list row `row`
on_item_double_clicked(row) ==
    IF row < 0 \/ row >= Len(visible_indices) THEN {Seq0}
    ELSE IF variant = "full"
         THEN play_by_track_index(visible_indices[row + 1], history)
         ELSE double_click_autoplay(visible_indices[row + 1])

\* Faulty shuffle handler: `self.history = []` is missing.
on_shuffle_changed_keeps_history(base) ==
    LET r == rebuild_play_order(base, TRUE, play_order, play_pos) IN
    [Seq0 EXCEPT !.play_order = r.play_order, !.play_pos = r.play_pos]

\* MainWindow._on_shuffle_changed once self.shuffle is set: the history is
\* emptied and the play order rebuilt with keep_current=True, `base` being
\* the order the rebuild produced.
on_shuffle_changed(base) ==
    LET r == rebuild_play_order(base, TRUE, play_order, play_pos) IN
    [Seq0 EXCEPT !.play_order = r.play_order,
                 !.play_pos = r.play_pos,
                 !.history = <<>>]

\* Faulty toggle: the `if not self.play_order` test is missing.
toggle_play_pause_no_empty_test(playing) ==
    IF current_track_index(play_order, play_pos) = -1
    THEN [Seq0 EXCEPT
             !.play_pos = 0,
             !.effects = load_current_and_play(tracks, play_order, 0)]
    ELSE IF playing
    THEN [Seq0 EXCEPT
             !.effects = << <<"pause">>, <<"btn_play_pause", "Play">> >>]
    ELSE [Seq0 EXCEPT
             !.effects = << <<"play">>, <<"btn_play_pause", "Pause">> >>]

\* MainWindow.toggle_play_pause, `playing` being engine.is_playing()
toggle_play_pause(playing) ==
    IF play_order = <<>>
    THEN [Seq0 EXCEPT !.effects = << <<"information", "No tracks">> >>]
    ELSE IF current_track_index(play_order, play_pos) = -1
    THEN [Seq0 EXCEPT
             !.play_pos = 0,
             !.effects = load_current_and_play(tracks, play_order, 0)]
    ELSE IF playing
    THEN [Seq0 EXCEPT
             !.effects = << <<"pause">>, <<"btn_play_pause", "Play">> >>]
    ELSE [Seq0 EXCEPT
             !.effects = << <<"play">>, <<"btn_play_pause", "Pause">> >>]

\* ---------------------------------------------------------------- imports
\* The path lists add_files, add_folder and dropEvent hand to _add_paths
\* (all three return before the call when the list is empty): one path, or
\* two paths in either order, the same path twice included.
Batches == {<<p>> : p \in RawPaths} \cup {<<p, q>> : p, q \in RawPaths}

\* Faulty _add_paths: the `if added` test is missing, so the filter and the
\* play order are refreshed after every import.
add_paths_always_refreshes(paths) ==
    LET trks == add_paths_tracks(variant, tracks, paths)
        vis == apply_filter_indices(trks, query)
    IN  {[tracks |-> trks, visible_indices |-> vis,
          seq |-> [play_order |-> r.play_order, play_pos |-> r.play_pos,
                   history |-> history, effects |-> <<>>]] :
         r \in refresh_rebuilds(vis, shuffle, play_order, play_pos)}

\* MainWindow._add_paths(paths): every outcome, as the registry, the filter
\* view and the sequencer it leaves behind.
add_paths(paths) ==
    LET trks == add_paths_tracks(variant, tracks, paths)
        was_empty == Len(tracks) = 0
        vis == apply_filter_indices(trks, query)
    IN  IF Len(trks) = Len(tracks)
        THEN {[tracks |-> tracks, visible_indices |-> visible_indices,
               seq |-> Seq0]}
        ELSE {[tracks |-> trks, visible_indices |-> vis,
               seq |-> IF variant = "autoplay" /\ was_empty /\ r.play_order # <<>>
                       THEN [play_order |-> r.play_order, play_pos |-> 0,
                             history |-> history,
                             effects |-> load_current_and_play(
                                             trks, r.play_order, 0)]
                       ELSE [play_order |-> r.play_order,
                             play_pos |-> r.play_pos,
                             history |-> history, effects |-> <<>>]] :
              r \in refresh_rebuilds(vis, shuffle, play_order, play_pos)}

\* ------------------------------------------------------------ persistence
\* dict.get(key, default) on one entry of a playlist document
Get(entry, key, default) ==
    IF key \in DOMAIN entry THEN entry[key] ELSE default

\* One entry of a document's "tracks" array as save_playlist writes it for
\* an imported file: asdict(track).
SavedEntry(p) == read_metadata(p)

\* The "tracks" arrays of the playlist documents load_playlist may be given:
\* no entries; only entries that are dropped (empty path, missing file);
\* an entry with nothing but a path, spelled "./a"; saved registries; the
\* same file listed twice, under one spelling and under two; entries that
\* are dropped (no path key, missing file) between entries that are kept.
Docs ==
    {<<>>,
     <<[path |-> ""], [path |-> "gone"]>>,
     <<[path |-> "./a"]>>,
     <<SavedEntry("a")>>,
     <<SavedEntry("a"), SavedEntry("j")>>,
     <<SavedEntry("a"), SavedEntry("a")>>,
     <<[path |-> "./a"], SavedEntry("a")>>,
     <<[title |-> <<"x">>], [path |-> "./a"], [path |-> "gone"],
       SavedEntry("a")>>}

\* Faulty load loop: the Path(p).exists() test is missing.
RECURSIVE loaded_tracks_on_keeps_missing(_, _)
loaded_tracks_on_keeps_missing(files, doc) ==
    IF doc = <<>> THEN <<>>
    ELSE LET t == Head(doc)
             p == Get(t, "path", "")
         IN  IF p = "" THEN loaded_tracks_on_keeps_missing(files, Tail(doc))
             ELSE <<Track(p,
                          Get(t, "title", <<>>),
                          Get(t, "artist", <<>>),
                          Get(t, "album", <<>>),
                          Get(t, "duration_ms", -1))>>
                  \o loaded_tracks_on_keeps_missing(files, Tail(doc))

\* The loop of load_playlist while the audio files in `files` are on disk:
\* the entries with a non-empty, existing path, as Track records with the
\* defaults for missing keys.
RECURSIVE loaded_tracks_on(_, _)
loaded_tracks_on(files, doc) ==
    IF doc = <<>> THEN <<>>
    ELSE LET t == Head(doc)
             p == Get(t, "path", "")
         IN  IF p = "" \/ ~exists_on(files, p)
             THEN loaded_tracks_on(files, Tail(doc))
             ELSE <<Track(p,
                          Get(t, "title", <<>>),
                          Get(t, "artist", <<>>),
                          Get(t, "album", <<>>),
                          Get(t, "duration_ms", -1))>>
                  \o loaded_tracks_on(files, Tail(doc))

\* The loop of load_playlist during the session.
loaded_tracks(doc) == loaded_tracks_on(Files, doc)

\* Faulty asdict: the title written is the one the list shows, the file
\* name stem standing in for an empty title.
asdict_title_fallback(t) ==
    [path |-> t.path,
     title |-> IF t.title # <<>> THEN t.title ELSE Stem[PathStr(t.path)],
     artist |-> t.artist, album |-> t.album, duration_ms |-> t.duration_ms]

\* dataclasses.asdict(t): the dict of the five fields of a Track.
asdict(t) ==
    [path |-> t.path, title |-> t.title, artist |-> t.artist,
     album |-> t.album, duration_ms |-> t.duration_ms]

\* The "tracks" array of the payload save_playlist writes for registry
\* trks, as json.load reads it back: json.dump and json.load carry
\* strings, integers, lists and dicts with string keys through unchanged.
saved_tracks(trks) == [i \in 1..Len(trks) |-> asdict(trks[i])]

\* Faulty load: `self.history = []` is missing.
load_playlist_keeps_history(doc) ==
    LET loaded == loaded_tracks(doc)
        vis == apply_filter_indices(loaded, query)
    IN  IF loaded = <<>>
        THEN {[tracks |-> tracks, visible_indices |-> visible_indices,
               seq |-> [Seq0 EXCEPT
                           !.effects = << <<"information", "Nothing loaded">> >>]]}
        ELSE {[tracks |-> loaded, visible_indices |-> vis,
               seq |-> [play_order |-> r.play_order, play_pos |-> r.play_pos,
                        history |-> history, effects |-> <<>>]] :
              r \in refresh_rebuilds(vis, shuffle, play_order, play_pos)}

\* MainWindow.load_playlist once the document `doc` has been parsed: every
\* outcome.  Only the autoplay variant starts playback.
load_playlist(doc) ==
    LET loaded == loaded_tracks(doc)
        vis == apply_filter_indices(loaded, query)
    IN  IF loaded = <<>>
        THEN {[tracks |-> tracks, visible_indices |-> visible_indices,
               seq |-> [Seq0 EXCEPT
                           !.effects = << <<"information", "Nothing loaded">> >>]]}
        ELSE {[tracks |-> loaded, visible_indices |-> vis,
               seq |-> IF variant = "autoplay" /\ r.play_order # <<>>
                       THEN [play_order |-> r.play_order, play_pos |-> 0,
                             history |-> <<>>,
                             effects |-> load_current_and_play(
                                             loaded, r.play_order, 0)]
                       ELSE [play_order |-> r.play_order,
                             play_pos |-> r.play_pos,
                             history |-> <<>>, effects |-> <<>>]] :
              r \in refresh_rebuilds(vis, shuffle, play_order, play_pos)}

\* The files the user may pick in the Load dialog: one that cannot be
\* opened or read (OSError), one that is not JSON (JSONDecodeError), and
\* the JSON documents whose "tracks" arrays are in Docs.
PlaylistFiles ==
    {[kind |-> "unreadable"], [kind |-> "malformed"]}
    \cup {[kind |-> "document", tracks |-> doc] : doc \in Docs}

\* Faulty load: a JSONDecodeError is reported like an OSError.
load_playlist_from_one_error_kind(file) ==
    IF file.kind \in {"unreadable", "malformed"}
    THEN {[tracks |-> tracks, visible_indices |-> visible_indices,
           seq |-> [Seq0 EXCEPT
                       !.effects = << <<"critical", "Load failed">> >>]]}
    ELSE load_playlist(file.tracks)

\* MainWindow.load_playlist from the chosen file on: every outcome.
load_playlist_from(file) ==
    IF file.kind = "unreadable"
    THEN {[tracks |-> tracks, visible_indices |-> visible_indices,
           seq |-> [Seq0 EXCEPT
                       !.effects = << <<"critical", "Load failed">> >>]]}
    ELSE IF file.kind = "malformed"
    THEN {[tracks |-> tracks, visible_indices |-> visible_indices,
           seq |-> [Seq0 EXCEPT
                       !.effects = << <<"critical", "Invalid JSON">> >>]]}
    ELSE load_playlist(file.tracks)

\* A JSON value as json.load returns it: its Python type ("NoneType",
\* "int", "str", "list", "dict") and the number, the characters, the items
\* or the members it holds.  A path is one of RawPaths, any other string a
\* sequence of characters.
JSON(type, value) == [type |-> type, value |-> value]

\* The characters of `str` are decimal digits, at least one
IsDecimal(str) ==
    /\ str # <<>>
    /\ \A k \in 1..Len(str) : \E n \in 0..9 : ToString(n) = str[k]

RECURSIVE decimal(_)
decimal(str) ==
    IF str = <<>> THEN 0
    ELSE 10 * decimal(SubSeq(str, 1, Len(str) - 1))
         + (CHOOSE n \in 0..9 : ToString(n) = str[Len(str)])

\* int(v): the exception it raises for the JSON value v, or "none"
int_fault(v) ==
    IF v.type = "int" THEN "none"
    ELSE IF v.type = "str"
         THEN (IF IsDecimal(v.value) THEN "none" ELSE "ValueError")
    ELSE "TypeError"

\* int(v) where it raises nothing
int_of(v) == IF v.type = "int" THEN v.value ELSE decimal(v.value)

\* What `for t in tracks` iterates over: the items of a list, the
\* one-character strings of a string, the keys of a dict
iterated(v) ==
    IF v.type = "list" THEN v.value
    ELSE IF v.type = "str" THEN [k \in 1..Len(v.value) |-> JSON("str", <<v.value[k]>>)]
    ELSE <<>>

\* The loop of load_playlist over the items `items`: the first exception
\* it raises, or "none".  t.get exists on a dict only; an entry whose path
\* is empty or missing on disk is skipped before int() is reached.
RECURSIVE loop_fault(_)
loop_fault(items) ==
    IF items = <<>> THEN "none"
    ELSE LET t == Head(items) IN
         IF t.type # "dict" THEN "AttributeError"
         ELSE LET p == Get(t.value, "path", JSON("str", "")) IN
              IF p.value = "" \/ ~exists(p.value)
              THEN loop_fault(Tail(items))
              ELSE IF int_fault(Get(t.value, "duration_ms", JSON("int", -1))) # "none"
              THEN int_fault(Get(t.value, "duration_ms", JSON("int", -1)))
              ELSE loop_fault(Tail(items))

\* load_playlist from `payload = json.load(f)` on: the exception that
\* leaves the handler, or "none".  payload.get exists on a dict only;
\* None and numbers are not iterable.
payload_fault(payload) ==
    IF payload.type # "dict" THEN "AttributeError"
    ELSE LET trks == Get(payload.value, "tracks", JSON("list", <<>>)) IN
         IF trks.type \in {"NoneType", "int"} THEN "TypeError"
         ELSE IF trks.type = "dict" /\ DOMAIN trks.value # {}
         THEN "AttributeError"
         ELSE loop_fault(iterated(trks))

\* The entries of a "tracks" list that raises nothing, with the values the
\* loop reads: the path string and int(duration_ms)
RECURSIVE entries_read(_)
entries_read(items) ==
    IF items = <<>> THEN <<>>
    ELSE LET t == Head(items).value
             p == Get(t, "path", JSON("str", "")).value
         IN  (IF p = "" \/ ~exists(p)
              THEN << [path |-> p] >>
              ELSE << [path |-> p,
                       duration_ms |-> int_of(Get(t, "duration_ms", JSON("int", -1)))] >>)
             \o entries_read(Tail(items))

\* Documents that parse as JSON: top level a list or a number; "tracks"
\* null, a number, a string, an empty string, a list with a number in it;
\* duration_ms a word, null, a decimal string; a word as duration_ms of an
\* entry whose file is missing; no "tracks" key; one well-formed entry.
Payloads ==
    {JSON("list", <<>>),
     JSON("int", 5),
     JSON("dict", [tracks |-> JSON("NoneType", <<>>)]),
     JSON("dict", [tracks |-> JSON("int", 5)]),
     JSON("dict", [tracks |-> JSON("str", <<"a">>)]),
     JSON("dict", [tracks |-> JSON("str", <<>>)]),
     JSON("dict", [tracks |-> JSON("list", <<JSON("int", 5)>>)]),
     JSON("dict", [tracks |-> JSON("list", <<JSON("dict", [path |-> JSON("str", "a"),
                                      duration_ms |-> JSON("str", <<"x">>)])>>)]),
     JSON("dict", [tracks |-> JSON("list", <<JSON("dict", [path |-> JSON("str", "a"),
                                      duration_ms |-> JSON("NoneType", <<>>)])>>)]),
     JSON("dict", [tracks |-> JSON("list", <<JSON("dict", [path |-> JSON("str", "a"),
                                      duration_ms |-> JSON("str", <<"1", "2">>)])>>)]),
     JSON("dict", [tracks |-> JSON("list", <<JSON("dict", [path |-> JSON("str", "gone"),
                                      duration_ms |-> JSON("str", <<"x">>)])>>)]),
     JSON("dict", [version |-> JSON("int", 1)]),
     JSON("dict", [tracks |-> JSON("list", <<JSON("dict", [path |-> JSON("str", "a")])>>)])}

\* MainWindow.load_playlist from the parsed document on: an exception
\* leaves the handler before any field is assigned, or the load goes on as
\* for the entries read.
load_payload(payload) ==
    IF payload_fault(payload) # "none"
    THEN {[tracks |-> tracks, visible_indices |-> visible_indices,
           seq |-> [Seq0 EXCEPT
                       !.effects = << <<"raise", payload_fault(payload)>> >>]]}
    ELSE load_playlist(entries_read(
             iterated(Get(payload.value, "tracks", JSON("list", <<>>)))))

\* MainWindow.save_playlist: the "tracks" array that reaches the file, and
\* the session with the dialog shown, `write_ok` telling whether open() and
\* json.dump() succeed.  With an empty registry nothing is written.
save_playlist(write_ok) ==
    LET dialog == IF tracks = <<>> THEN << <<"information", "Empty">> >>
                  ELSE IF write_ok THEN <<>>
                  ELSE << <<"critical", "Save failed">> >>
    IN  [written |-> IF tracks # <<>> /\ write_ok THEN saved_tracks(tracks)
                     ELSE <<>>,
         tracks |-> tracks, visible_indices |-> visible_indices,
         seq |-> [Seq0 EXCEPT !.effects = dialog]]

\* ---------------------------------------------------------------- actions
Init ==
    /\ variant \in Variants
    /\ tracks = <<>>
    /\ query = <<>>
    /\ visible_indices = <<>>
    /\ play_order = <<>>
    /\ play_pos = -1
    /\ history = <<>>
    /\ shuffle = FALSE
    /\ repeat_all = TRUE
    /\ repeat_one = FALSE
    /\ lastOp = "init"
    /\ effects = <<>>
    /\ nextTrace = <<>>
    /\ user_seeking = FALSE
    /\ last_known_length_ms = -1
    /\ ended_fired_for_track_idx = -1
    /\ deferred_go = FALSE
    /\ engine_state = "none"
    /\ scheduled_since_load = 0
    /\ tts = [q |-> <<>>, stop_event |-> FALSE, ps_proc |-> 0, procs |-> <<>>,
              worker |-> "while", phrase |-> <<>>, waited |-> 0,
              ui |-> "idle", requests |-> <<>>, dropped |-> {}]
    /\ end_thread = [pc |-> "idle", nxt |-> -1]
    /\ slick = [tracks |-> <<>>, order |-> <<>>, pos |-> -1, shuffle |-> FALSE,
                repeat_all |-> TRUE, repeat_one |-> FALSE, text |-> <<>>,
                rows |-> <<>>, effects |-> <<>>, lastOp |-> "init",
                raised |-> FALSE]
    /\ before_next = NoNext
    /\ watch = Unwatching

\* The handler `op` ends with the sequencer in state s.
Commit(op, s) ==
    /\ play_order' = s.play_order
    /\ play_pos' = s.play_pos
    /\ history' = s.history
    /\ effects' = s.effects
    /\ lastOp' = op

\* add_files / add_folder / dropEvent delivering a non-empty path list
AddPaths ==
    \E paths \in Batches : \E out \in add_paths(paths) :
        /\ tracks' = out.tracks
        /\ visible_indices' = out.visible_indices
        /\ Commit("add_paths", out.seq)
        /\ nextTrace' = <<>>
        /\ UNCHANGED <<variant, query, flags>>

\* Ctrl+L / Load button -> load_playlist, the user picking a file
LoadPlaylist ==
    \E file \in PlaylistFiles : \E out \in load_playlist_from(file) :
        /\ tracks' = out.tracks
        /\ visible_indices' = out.visible_indices
        /\ Commit("load_playlist", out.seq)
        /\ nextTrace' = <<>>
        /\ UNCHANGED <<variant, query, flags>>

\* load_playlist, the user picking a file that holds any JSON document
LoadPayload ==
    \E payload \in Payloads : \E out \in load_payload(payload) :
        /\ tracks' = out.tracks
        /\ visible_indices' = out.visible_indices
        /\ Commit("load_playlist", out.seq)
        /\ nextTrace' = <<>>
        /\ UNCHANGED <<variant, query, flags>>

\* Ctrl+S / Save button -> save_playlist, the user naming a file.  The
\* document goes to that file; the session keeps nothing of it.
SavePlaylist ==
    \E write_ok \in BOOLEAN :
        LET out == save_playlist(write_ok) IN
        /\ tracks' = out.tracks
        /\ visible_indices' = out.visible_indices
        /\ Commit("save_playlist", out.seq)
        /\ nextTrace' = <<>>
        /\ UNCHANGED <<variant, query, flags>>

\* search.textChanged -> _apply_filter
SearchChanged ==
    \E text \in Queries \ {query} :
        LET vis == apply_filter_indices(tracks, text) IN
        \E r \in apply_filter_rebuilds(vis, shuffle, play_order, play_pos) :
            /\ query' = text
            /\ visible_indices' = vis
            /\ Commit("apply_filter",
                      [Seq0 EXCEPT !.play_order = r.play_order,
                                   !.play_pos = r.play_pos])
            /\ nextTrace' = <<>>
            /\ UNCHANGED <<variant, tracks, flags>>

\* chk_shuffle.stateChanged -> _on_shuffle_changed
ShuffleChanged ==
    \E base \in shuffled_bases(visible_indices, ~shuffle) :
        /\ shuffle' = ~shuffle
        /\ Commit("on_shuffle_changed", on_shuffle_changed(base))
        /\ nextTrace' = <<>>
        /\ UNCHANGED <<variant, tracks, query, visible_indices,
                       repeat_all, repeat_one>>

\* chk_repeat_all.stateChanged -> _on_repeat_all_changed
RepeatAllChanged ==
    /\ repeat_all' = ~repeat_all
    /\ Commit("on_repeat_all_changed", Seq0)
    /\ nextTrace' = <<>>
    /\ UNCHANGED <<variant, tracks, query, visible_indices, shuffle, repeat_one>>

\* Faulty repeat-one handler: switching repeat_one on switches repeat_all
\* off, as if the two modes excluded each other.
RepeatOneChanged_exclusive ==
    /\ repeat_one' = ~repeat_one
    /\ repeat_all' = (repeat_one /\ repeat_all)
    /\ Commit("on_repeat_one_changed", Seq0)
    /\ nextTrace' = <<>>
    /\ UNCHANGED <<variant, tracks, query, visible_indices, shuffle>>

\* chk_repeat_one.stateChanged -> _on_repeat_one_changed
RepeatOneChanged ==
    /\ repeat_one' = ~repeat_one
    /\ Commit("on_repeat_one_changed", Seq0)
    /\ nextTrace' = <<>>
    /\ UNCHANGED <<variant, tracks, query, visible_indices, shuffle, repeat_all>>

\* playlist.itemDoubleClicked -> _on_item_double_clicked
DoubleClick ==
    \E row \in -1..Len(visible_indices) : \E s \in on_item_double_clicked(row) :
        /\ Commit("on_item_double_clicked", s)
        /\ nextTrace' = <<>>
        /\ UNCHANGED <<variant, tracks, query, visible_indices, flags>>

\* Play/Pause button, Space, tray action -> toggle_play_pause
TogglePlayPause ==
    \E playing \in BOOLEAN :
        /\ Commit("toggle_play_pause", toggle_play_pause(playing))
        /\ nextTrace' = <<>>
        /\ UNCHANGED <<variant, tracks, query, visible_indices, flags>>

\* The trace of a run of consecutive play_next calls that began with the
\* cursor at offset 0, extended by the track the latest call made current;
\* a run ends when it has as many entries as the play order.
next_trace(s) ==
    LET cur == current_track_index(s.play_order, s.play_pos) IN
    IF s.play_order = <<>> THEN <<>>
    ELSE IF nextTrace # <<>> /\ Len(nextTrace) < Len(play_order)
    THEN Append(nextTrace, cur)
    ELSE IF play_pos = 0 THEN <<cur>> ELSE <<>>

\* Next button, Right key, tray action -> play_next
PlayNext ==
    /\ Len(play_next.history) <= MaxHistory
    /\ Commit("play_next", play_next)
    /\ nextTrace' = next_trace(play_next)
    /\ UNCHANGED <<variant, tracks, query, visible_indices, flags>>

\* Prev button, Left key, tray action -> play_prev
PlayPrev ==
    \E s \in play_prev :
        /\ Commit("play_prev", s)
        /\ nextTrace' = <<>>
        /\ UNCHANGED <<variant, tracks, query, visible_indices, flags>>

\* Natural end of the playing track: the engine's end-of-media callback
\* (full), the deferred action of the near-end poll (autoplay).
TrackEnd ==
    /\ Len(track_end.history) <= MaxHistory
    /\ Commit("track_end", track_end)
    /\ nextTrace' = <<>>
    /\ UNCHANGED <<variant, tracks, query, visible_indices, flags>>

Next ==
    \/ AddPaths /\ Idle
    \/ LoadPlaylist /\ Idle
    \/ SavePlaylist /\ Idle
    \/ SearchChanged /\ Idle
    \/ ShuffleChanged /\ Idle
    \/ RepeatAllChanged /\ Idle
    \/ RepeatOneChanged /\ Idle
    \/ DoubleClick /\ Idle
    \/ TogglePlayPause /\ Idle
    \/ PlayNext /\ Idle
    \/ PlayPrev /\ Idle
    \/ TrackEnd /\ Idle

Spec == Init /\ [][Next]_vars

\* Sessions that remember, after each play_next, the current track and the
\* history it started from, until the next handler other than play_prev
\* has run.
Still == UNCHANGED <<timer, tts, end_thread, slick, watch>>

Forget == before_next' = NoNext

Remember ==
    before_next' = [valid |-> TRUE,
                    cur |-> current_track_index(play_order, play_pos),
                    history |-> history]

NextRoundTrip ==
    \/ AddPaths /\ Still /\ Forget
    \/ SearchChanged /\ Still /\ Forget
    \/ ShuffleChanged /\ Still /\ Forget
    \/ RepeatAllChanged /\ Still /\ Forget
    \/ RepeatOneChanged /\ Still /\ Forget
    \/ DoubleClick /\ Still /\ Forget
    \/ PlayNext /\ Still /\ Remember
    \/ PlayPrev /\ Still /\ Forget

SpecRoundTrip == Init /\ [][NextRoundTrip]_vars

\* The same machine without load_playlist: sessions that only import.
NextImports ==
    \/ AddPaths /\ Idle
    \/ SearchChanged /\ Idle
    \/ ShuffleChanged /\ Idle
    \/ RepeatAllChanged /\ Idle
    \/ RepeatOneChanged /\ Idle
    \/ DoubleClick /\ Idle
    \/ TogglePlayPause /\ Idle
    \/ PlayNext /\ Idle
    \/ PlayPrev /\ Idle
    \/ TrackEnd /\ Idle

SpecImports == Init /\ [][NextImports]_vars

\* Sessions in which playlists of any JSON shape are loaded.
NextPayloads ==
    \/ AddPaths /\ Idle
    \/ LoadPayload /\ Idle
    \/ SearchChanged /\ Idle
    \/ ShuffleChanged /\ Idle
    \/ PlayNext /\ Idle

SpecPayloads == Init /\ [][NextPayloads]_vars

\* ------------------------------------------------- position timer, seeking
\* Durations the engine reports for a playing medium, and positions in it
Lengths == {999, 3000}
Positions == {-1, 0, 2299, 2300}
\* Positions of the seek slider (0..1000) the user releases it at
SliderValues == {0, 9, 500, 1000}

\* PlayerEngine.get_length_ms: -1 or 0 while no medium is playing or the
\* duration is not known yet
get_length_ms == IF engine_state = "active" THEN {-1, 0} \cup Lengths ELSE {-1, 0}

\* PlayerEngine.get_time_ms
get_time_ms == IF engine_state = "active" THEN Positions ELSE {-1, 0}

\* PlayerEngine.load_path / play / pause / stop / set_time_ms on the player
engine_command(st, cmd) ==
    IF cmd[1] = "load_path" THEN "stopped"
    ELSE IF cmd[1] = "play" THEN (IF st = "none" THEN "none" ELSE "active")
    ELSE IF cmd[1] = "stop" THEN (IF st = "none" THEN "none" ELSE "stopped")
    ELSE st

RECURSIVE engine_after(_, _)
engine_after(st, eff) ==
    IF eff = <<>> THEN st
    ELSE engine_after(engine_command(st, Head(eff)), Tail(eff))

\* The handler ran _load_current_and_play past its `idx == -1` return
Loads(eff) == \E k \in 1..Len(eff) : eff[k][1] = "load_path"

\* int((value / 1000.0) * length) in double arithmetic: the floor of the
\* exact product, or one less when the exact product is a whole number and
\* value / 1000.0 is not exact (value is not a multiple of 125), as
\* int((9 / 1000.0) * 3000) = 26.
seek_targets(value, length) ==
    LET q == (value * length) \div 1000 IN
    IF (value * length) % 1000 = 0 /\ value % 125 # 0 /\ q > 0
    THEN {q - 1, q}
    ELSE {q}

\* Faulty seek: the cached length is used without the `length <= 0` test.
apply_seek_from_slider_no_length_test(value, length) ==
    LET len == IF length <= 0 /\ variant = "autoplay"
               THEN last_known_length_ms ELSE length
    IN {<< <<"set_time", ms>> >> : ms \in seek_targets(value, len)}

\* MainWindow._apply_seek_from_slider with the slider at `value` and the
\* engine reporting `length`: the engine commands it can issue.
apply_seek_from_slider(value, length) ==
    LET len == IF length <= 0 /\ variant = "autoplay"
               THEN last_known_length_ms ELSE length
    IN IF len <= 0 THEN {<<>>}
       ELSE {<< <<"set_time", ms>> >> : ms \in seek_targets(value, len)}

\* Faulty poll: the `_ended_fired_for_track_idx == idx` test is missing.
maybe_autoplay_next_no_debounce(pos, length) ==
    LET idx == current_track_index(play_order, play_pos) IN
    IF user_seeking \/ length <= 0 \/ pos <= 0 \/ idx = -1 \/ length - pos > 700
    THEN [fired |-> ended_fired_for_track_idx, schedules |-> FALSE]
    ELSE [fired |-> idx, schedules |-> TRUE]

\* MainWindow._maybe_autoplay_next(pos, length): the new value of
\* _ended_fired_for_track_idx and whether _go is scheduled (auto_play is
\* never switched off).
maybe_autoplay_next(pos, length) ==
    LET idx == current_track_index(play_order, play_pos) IN
    IF user_seeking \/ length <= 0 \/ pos <= 0 \/ idx = -1 \/ length - pos > 700
       \/ ended_fired_for_track_idx = idx
    THEN [fired |-> ended_fired_for_track_idx, schedules |-> FALSE]
    ELSE [fired |-> idx, schedules |-> TRUE]

\* MainWindow._tick with the engine reporting (length, pos)
tick(length, pos) ==
    IF user_seeking \/ variant = "full" \/ length <= 0
    THEN [last_known |-> last_known_length_ms,
          fired |-> ended_fired_for_track_idx, schedules |-> FALSE]
    ELSE [last_known |-> length,
          fired |-> maybe_autoplay_next(pos, length).fired,
          schedules |-> maybe_autoplay_next(pos, length).schedules]

\* What a handler of the window does to the timer state: its engine
\* commands act on the player, and _load_current_and_play (autoplay) resets
\* the near-end debounce.
Timed ==
    /\ engine_state' = engine_after(engine_state, effects')
    /\ ended_fired_for_track_idx' =
           IF variant = "autoplay" /\ Loads(effects') THEN -1
           ELSE ended_fired_for_track_idx
    /\ scheduled_since_load' = IF Loads(effects') THEN 0 ELSE scheduled_since_load
    /\ UNCHANGED <<user_seeking, last_known_length_ms, deferred_go, tts, end_thread, slick, before_next>>

\* timer.timeout (every 250 ms) -> _tick.  The zero-delay callback of an
\* earlier tick runs before the next tick is due.
TickAt(length, pos) ==
    /\ ~deferred_go
    /\ LET t == tick(length, pos) IN
           /\ t.schedules => scheduled_since_load < MaxScheduled
           /\ last_known_length_ms' = t.last_known
           /\ ended_fired_for_track_idx' = t.fired
           /\ deferred_go' = t.schedules
           /\ scheduled_since_load' =
                  IF t.schedules THEN scheduled_since_load + 1
                  ELSE scheduled_since_load
    /\ Commit("tick", Seq0)
    /\ nextTrace' = <<>>
    /\ UNCHANGED <<variant, tracks, query, visible_indices, flags,
                   user_seeking, engine_state, tts,
                   end_thread, slick, before_next>>

Tick == \E length \in get_length_ms : \E pos \in get_time_ms : TickAt(length, pos)

\* The callback _go that _maybe_autoplay_next handed to QTimer.singleShot
Go ==
    /\ deferred_go
    /\ deferred_go' = FALSE
    /\ Len(track_end.history) <= MaxHistory
    /\ Commit("track_end", track_end)
    /\ nextTrace' = <<>>
    /\ engine_state' = engine_after(engine_state, effects')
    /\ ended_fired_for_track_idx' =
           IF Loads(effects') THEN -1 ELSE ended_fired_for_track_idx
    /\ scheduled_since_load' = IF Loads(effects') THEN 0 ELSE scheduled_since_load
    /\ UNCHANGED <<variant, tracks, query, visible_indices, flags,
                   user_seeking, last_known_length_ms, tts,
                   end_thread, slick, before_next>>

\* slider.sliderPressed -> _on_seek_start
SeekStart ==
    /\ ~user_seeking
    /\ user_seeking' = TRUE
    /\ Commit("on_seek_start", Seq0)
    /\ nextTrace' = <<>>
    /\ UNCHANGED <<variant, tracks, query, visible_indices, flags,
                   last_known_length_ms, ended_fired_for_track_idx,
                   deferred_go, engine_state, scheduled_since_load, tts,
                   end_thread, slick, before_next>>

\* slider.sliderReleased -> _on_seek_end
SeekEndAt(value, length) ==
    /\ user_seeking
    /\ user_seeking' = FALSE
    /\ \E eff \in apply_seek_from_slider(value, length) :
           Commit("on_seek_end", [Seq0 EXCEPT !.effects = eff])
    /\ nextTrace' = <<>>
    /\ UNCHANGED <<variant, tracks, query, visible_indices, flags,
                   last_known_length_ms, ended_fired_for_track_idx,
                   deferred_go, engine_state, scheduled_since_load, tts,
                   end_thread, slick, before_next>>

SeekEnd ==
    \E value \in SliderValues : \E length \in get_length_ms :
        SeekEndAt(value, length)

\* Sessions of loaded playlists with the position timer running and the
\* seek slider in use.  load_playlist waits in its modal file dialog, where
\* a callback that is due runs before the file is read.
NextTimer ==
    \/ ~deferred_go /\ LoadPlaylist /\ Timed /\ UNCHANGED watch
    \/ SearchChanged /\ Timed /\ UNCHANGED watch
    \/ ShuffleChanged /\ Timed /\ UNCHANGED watch
    \/ RepeatAllChanged /\ Timed /\ UNCHANGED watch
    \/ TogglePlayPause /\ Timed /\ UNCHANGED watch
    \/ Tick /\ UNCHANGED watch
    \/ Go /\ UNCHANGED watch
    \/ SeekStart /\ UNCHANGED watch
    \/ SeekEnd /\ UNCHANGED watch

SpecTimer == Init /\ [][NextTimer]_vars

\* ------------------------------------------- autoplay sessions, observed
\* After a handler of the window: _load_current_and_play hands the engine
\* the track that is current when the handler returns; a load or a stop
\* ends the playthrough; a callback that is scheduled stays scheduled.
WatchHandler ==
    watch' = [watch EXCEPT
                 !.loaded = IF Loads(effects')
                            THEN current_track_index(play_order', play_pos')
                            ELSE @,
                 !.near_end = IF \E k \in 1..Len(effects') :
                                      effects'[k][1] \in {"load_path", "stop"}
                              THEN FALSE ELSE @,
                 !.fell_back = FALSE]

\* _tick saw (length, pos) at or past the near-end threshold of
\* _maybe_autoplay_next: remaining time <= 700 ms, position > 0, no seek
\* in progress, a current track.
AtThreshold(length, pos) ==
    /\ ~user_seeking
    /\ length > 0
    /\ pos > 0
    /\ current_track_index(play_order, play_pos) # -1
    /\ length - pos <= 700

\* _tick with the engine reporting (length, pos): the length it caches is
\* the length of the medium the engine holds, the callback it schedules is
\* for the track that is current.
WatchedTick ==
    \E length \in get_length_ms : \E pos \in get_time_ms :
        /\ TickAt(length, pos)
        /\ watch' = [watch EXCEPT
                        !.length_for = IF ~user_seeking /\ length > 0
                                       THEN watch.loaded ELSE @,
                        !.go_for = IF deferred_go'
                                   THEN current_track_index(play_order, play_pos)
                                   ELSE @,
                        !.near_end = IF AtThreshold(length, pos) THEN TRUE ELSE @,
                        !.fell_back = FALSE]

\* The callback _go runs: end-of-track handling.
WatchedGo ==
    /\ Go
    /\ watch' = [watch EXCEPT
                    !.loaded = IF Loads(effects')
                               THEN current_track_index(play_order', play_pos')
                               ELSE @,
                    !.go_for = -1,
                    !.near_end = FALSE,
                    !.fell_back = FALSE]

\* _on_seek_start: while the slider is held the position is the user's.
WatchedSeekStart ==
    /\ SeekStart
    /\ watch' = [watch EXCEPT !.near_end = FALSE, !.fell_back = FALSE]

\* _on_seek_end with the engine reporting `length`: _apply_seek_from_slider
\* falls back to the cached length when length <= 0, and seeks when the
\* cached length is positive.
WatchedSeekEnd ==
    \E value \in SliderValues : \E length \in get_length_ms :
        /\ SeekEndAt(value, length)
        /\ watch' = [watch EXCEPT
                        !.fell_back = length <= 0 /\ last_known_length_ms > 0]

InitAutoplay == Init /\ variant = "autoplay"

\* Sessions of the autoplay variant with the position timer running: user
\* events may run between a tick that schedules _go and _go itself.
NextAutoplay ==
    \/ ~deferred_go /\ LoadPlaylist /\ Timed /\ WatchHandler
    \/ RepeatAllChanged /\ Timed /\ WatchHandler
    \/ RepeatOneChanged /\ Timed /\ WatchHandler
    \/ TogglePlayPause /\ Timed /\ WatchHandler
    \/ DoubleClick /\ Timed /\ WatchHandler
    \/ PlayNext /\ Timed /\ WatchHandler
    \/ PlayPrev /\ Timed /\ WatchHandler
    \/ WatchedTick
    \/ WatchedGo
    \/ WatchedSeekStart
    \/ WatchedSeekEnd

SpecAutoplay == InitAutoplay /\ [][NextAutoplay]_vars

\* The event loop keeps running: the timer keeps ticking and a scheduled
\* zero-delay callback runs.
SpecAutoplayFair ==
    SpecAutoplay /\ WF_vars(WatchedTick) /\ WF_vars(WatchedGo)

\* ------------------------------------------------------------ TTSAnnouncer
\* Phrases handed to say(): two names, one with a trailing blank, and two
\* that strip to nothing
Phrases == {<<"p">>, <<"q", " ">>, <<" ">>, <<>>}

\* The phrases for which a speech subprocess has been launched
launched(t) == {t.procs[k].phrase : k \in 1..Len(t.procs)}

\* Popen.kill() on the process that `ref` names; kill() on None raises, and
\* the caller swallows the exception.
kill(procs, ref) ==
    IF ref = 0 \/ procs[ref].state # "running" THEN procs
    ELSE [procs EXCEPT ![ref].state = "killed"]

\* TTSAnnouncer._kill_running run without interruption
kill_running(t) == [t EXCEPT !.procs = kill(t.procs, t.ps_proc), !.ps_proc = 0]

\* Faulty say: the new phrase is queued behind the ones that wait.
say_no_drain(t, phrase) ==
    IF Strip(phrase) = <<>> THEN t
    ELSE [t EXCEPT !.q = Append(t.q, Strip(phrase)),
                   !.requests = Append(t.requests, Strip(phrase)),
                   !.dropped = t.dropped \cup
                       {r \in {t.requests[k] : k \in 1..Len(t.requests)} :
                           r \notin launched(t)}]

\* TTSAnnouncer.say(phrase) on the UI thread: _drain_queue, then put.  The
\* worker only takes from the queue, so the two steps act as one.  `dropped`
\* notes the earlier requests that had no subprocess yet.
say(t, phrase) ==
    IF Strip(phrase) = <<>> THEN t
    ELSE [t EXCEPT !.q = <<Strip(phrase)>>,
                   !.requests = Append(t.requests, Strip(phrase)),
                   !.dropped = t.dropped \cup
                       {r \in {t.requests[k] : k \in 1..Len(t.requests)} :
                           r \notin launched(t)}]

\* _announce_track_name -> self._tts.say, each phrase requested once
Say ==
    /\ tts.ui = "idle"
    /\ \E phrase \in Phrases :
           /\ \A k \in 1..Len(tts.requests) : tts.requests[k] # Strip(phrase)
           /\ tts' = say(tts, phrase)

\* _quit -> self._tts.shutdown(): self._stop_event.set()
ShutdownSet ==
    /\ tts.ui = "idle"
    /\ tts' = [tts EXCEPT !.stop_event = TRUE, !.ui = "put"]

\* Faulty shutdown: no empty phrase is put on the queue.
ShutdownPut_no_sentinel ==
    /\ tts.ui = "put"
    /\ tts' = [tts EXCEPT !.ui = "kill_running"]

\* shutdown: self._q.put("")
ShutdownPut ==
    /\ tts.ui = "put"
    /\ tts' = [tts EXCEPT !.q = Append(tts.q, <<>>), !.ui = "kill_running"]

\* shutdown: _kill_running's `if self._ps_proc is None: return`
ShutdownKillTest ==
    /\ tts.ui = "kill_running"
    /\ tts' = [tts EXCEPT !.ui = IF tts.ps_proc = 0 THEN "returned" ELSE "kill"]

\* shutdown: _kill_running's self._ps_proc.kill()
ShutdownKill ==
    /\ tts.ui = "kill"
    /\ tts' = [tts EXCEPT !.procs = kill(tts.procs, tts.ps_proc), !.ui = "clear"]

\* shutdown: _kill_running's self._ps_proc = None, and the return
ShutdownClear ==
    /\ tts.ui = "clear"
    /\ tts' = [tts EXCEPT !.ps_proc = 0, !.ui = "returned"]

\* _run_worker: `while not self._stop_event.is_set()`
WorkerWhile ==
    /\ tts.worker = "while"
    /\ tts' = [tts EXCEPT !.worker = IF tts.stop_event THEN "done" ELSE "get"]

\* _run_worker: phrase = self._q.get(), blocking while the queue is empty
WorkerGet ==
    /\ tts.worker = "get"
    /\ tts.q # <<>>
    /\ tts' = [tts EXCEPT !.phrase = Head(tts.q), !.q = Tail(tts.q),
                          !.worker = "if_stop"]

\* _run_worker: the second stop test and the test of the phrase
WorkerTest ==
    /\ tts.worker = "if_stop"
    /\ tts' = [tts EXCEPT !.worker =
                  IF tts.stop_event THEN "done"
                  ELSE IF Strip(tts.phrase) = <<>> THEN "while"
                  ELSE "kill_running"]

\* _run_worker: self._kill_running() before speaking
WorkerKillRunning ==
    /\ tts.worker = "kill_running"
    /\ tts' = [kill_running(tts) EXCEPT !.worker = "popen"]

\* _powershell_speak: self._ps_proc = subprocess.Popen(...)
WorkerPopen ==
    /\ tts.worker = "popen"
    /\ tts' = [tts EXCEPT
                  !.procs = Append(tts.procs, [phrase |-> Strip(tts.phrase),
                                               state |-> "running"]),
                  !.ps_proc = Len(tts.procs) + 1,
                  !.worker = "wait"]

\* _powershell_speak: the read of self._ps_proc in self._ps_proc.wait(...);
\* on None the call raises and the handler runs _kill_running.
WorkerWaitCall ==
    /\ tts.worker = "wait"
    /\ tts' = IF tts.ps_proc = 0
              THEN [kill_running(tts) EXCEPT !.worker = "clear"]
              ELSE [tts EXCEPT !.waited = tts.ps_proc, !.worker = "waiting"]

\* _powershell_speak: wait returns once the process has ended
WorkerWaitReturns ==
    /\ tts.worker = "waiting"
    /\ tts.procs[tts.waited].state # "running"
    /\ tts' = [tts EXCEPT !.waited = 0, !.worker = "clear"]

\* _powershell_speak: wait times out after 20 s and the handler runs
\* _kill_running
WorkerWaitTimeout ==
    /\ tts.worker = "waiting"
    /\ tts.procs[tts.waited].state = "running"
    /\ tts' = [kill_running(tts) EXCEPT !.waited = 0, !.worker = "clear"]

\* _powershell_speak: self._ps_proc = None
WorkerClear ==
    /\ tts.worker = "clear"
    /\ tts' = [tts EXCEPT !.ps_proc = 0, !.worker = "while"]

\* The speech subprocess finishes its phrase
ProcExit ==
    \E k \in 1..Len(tts.procs) :
        /\ tts.procs[k].state = "running"
        /\ tts' = [tts EXCEPT !.procs[k].state = "exited"]

\* The announcer alone: the window's other state stays as constructed
Silent == UNCHANGED <<variant, tracks, query, visible_indices, play_order,
                      play_pos, history, flags, lastOp, effects, nextTrace,
                      timer, end_thread, slick, before_next, watch>>

NextTTS ==
    \/ Say /\ Silent
    \/ ShutdownSet /\ Silent
    \/ ShutdownPut /\ Silent
    \/ ShutdownKillTest /\ Silent
    \/ ShutdownKill /\ Silent
    \/ ShutdownClear /\ Silent
    \/ WorkerWhile /\ Silent
    \/ WorkerGet /\ Silent
    \/ WorkerTest /\ Silent
    \/ WorkerKillRunning /\ Silent
    \/ WorkerPopen /\ Silent
    \/ WorkerWaitCall /\ Silent
    \/ WorkerWaitReturns /\ Silent
    \/ WorkerWaitTimeout /\ Silent
    \/ WorkerClear /\ Silent
    \/ ProcExit /\ Silent

\* Only the autoplay variant has an announcer
InitTTS == Init /\ variant = "autoplay"

SpecTTS == InitTTS /\ [][NextTTS]_vars

\* The statements of shutdown() after the first
ShutdownRest ==
    \/ ShutdownPut /\ Silent
    \/ ShutdownKillTest /\ Silent
    \/ ShutdownKill /\ Silent
    \/ ShutdownClear /\ Silent

\* One step of the worker thread; a wait on a subprocess that still runs
\* ends with its timeout
WorkerStep ==
    \/ WorkerWhile /\ Silent
    \/ WorkerGet /\ Silent
    \/ WorkerTest /\ Silent
    \/ WorkerKillRunning /\ Silent
    \/ WorkerPopen /\ Silent
    \/ WorkerWaitCall /\ Silent
    \/ WorkerWaitReturns /\ Silent
    \/ WorkerWaitTimeout /\ Silent
    \/ WorkerClear /\ Silent

\* The worker thread is scheduled whenever it can run, a subprocess wait
\* returns, and a shutdown() that was called runs to its end.
SpecTTSFair == SpecTTS /\ WF_vars(WorkerStep) /\ WF_vars(ShutdownRest)

\* ------------------------------------------- end-of-media callback thread
\* libvlc calls PlayerEngine._on_end_reached on its event thread, and that
\* calls self._end_callback, MainWindow._handle_track_end, there and then.
\* The thread has entered the callback.
EndReached ==
    /\ end_thread.pc = "idle"
    /\ current_track_index(play_order, play_pos) # -1
    /\ end_thread' = [end_thread EXCEPT !.pc = "handle_track_end"]
    /\ UNCHANGED <<play_order, play_pos, history, effects, lastOp>>

\* _handle_track_end up to play_next's history.append(cur): the repeat_one
\* branch and the empty play order end the callback.
EndPush ==
    /\ end_thread.pc = "handle_track_end"
    /\ Len(pushed_history) <= MaxHistory
    /\ IF repeat_one \/ play_order = <<>>
       THEN /\ Commit("track_end", track_end)
            /\ end_thread' = [end_thread EXCEPT !.pc = "idle"]
       ELSE /\ history' = pushed_history
            /\ end_thread' = [end_thread EXCEPT !.pc = "nxt"]
            /\ UNCHANGED <<play_order, play_pos, effects, lastOp>>

\* play_next: nxt = self.play_pos + 1 and the test against
\* len(self.play_order); at the end without repeat_all the engine is stopped.
EndNxt ==
    /\ end_thread.pc = "nxt"
    /\ LET nxt == play_pos + 1 IN
       IF nxt >= Len(play_order) /\ ~repeat_all
       THEN /\ Commit("track_end", advance(history))
            /\ end_thread' = [end_thread EXCEPT !.pc = "idle"]
       ELSE /\ end_thread' = [pc |-> "store",
                              nxt |-> IF nxt >= Len(play_order) THEN 0 ELSE nxt]
            /\ UNCHANGED <<play_order, play_pos, history, effects, lastOp>>

\* play_next: self.play_pos = nxt; self._load_current_and_play()
EndStore ==
    /\ end_thread.pc = "store"
    /\ Commit("track_end",
              [Seq0 EXCEPT
                  !.play_pos = end_thread.nxt,
                  !.effects = load_current_and_play(tracks, play_order,
                                                    end_thread.nxt)])
    /\ end_thread' = [pc |-> "idle", nxt |-> -1]

\* A step of the event thread leaves the rest of the window alone
OnEventThread ==
    /\ nextTrace' = <<>>
    /\ UNCHANGED <<variant, tracks, query, visible_indices, flags, timer, tts,
                   slick, before_next, watch>>

\* A handler on the UI thread, run as one step
OnUIThread == UNCHANGED <<timer, tts, end_thread, slick, before_next, watch>>

\* The full variant with the end-of-media callback run statement by
\* statement on the engine's event thread, the UI thread's handlers between
\* its statements.
NextEndReached ==
    \/ AddPaths /\ OnUIThread
    \/ LoadPlaylist /\ OnUIThread
    \/ SearchChanged /\ OnUIThread
    \/ RepeatAllChanged /\ OnUIThread
    \/ DoubleClick /\ OnUIThread
    \/ PlayNext /\ OnUIThread
    \/ PlayPrev /\ OnUIThread
    \/ EndReached /\ OnEventThread
    \/ EndPush /\ OnEventThread
    \/ EndNxt /\ OnEventThread
    \/ EndStore /\ OnEventThread

InitEndReached == Init /\ variant = "full"

SpecEndReached == InitEndReached /\ [][NextEndReached]_vars

\* ------------------------------------------ sai_mp3_player_slick.py
\* The texts of the search box and the path lists of the file dialog (the
\* empty list: the dialog was cancelled)
SlickPaths == {<<>>, <<"a">>, <<"j">>, <<"gone">>, <<"a", "j">>}

\* MainWindow._add(p): the entries it can append.  The tagged file gets its
\* tags; for the file mutagen cannot parse MutagenFile returns None (the
\* stem is the title) or raises (nothing is added), as for a missing file.
slick_add(raw) ==
    IF ~exists(raw) THEN {<<>>}
    ELSE LET tags == FileTags[PathStr(raw)] IN
         IF tags.readable
         THEN {<<Track(PathStr(raw), tags.title, tags.artist, tags.album,
                       tags.length_ms)>>}
         ELSE {<<>>, <<Track(PathStr(raw), Stem[PathStr(raw)], <<>>, <<>>, -1)>>}

\* The registry after the loop of add_files over `paths`
RECURSIVE slick_add_all(_, _)
slick_add_all(trks, paths) ==
    IF paths = <<>> THEN {trks}
    ELSE UNION {slick_add_all(trks \o t, Tail(paths)) : t \in slick_add(Head(paths))}

\* The loop of refresh: registry indices whose text holds q, in registry
\* order.  q is lower-cased, not stripped.
RECURSIVE slick_matches(_, _, _)
slick_matches(trks, q, i) ==
    IF i >= Len(trks) THEN <<>>
    ELSE (IF Contains(q, Hay(trks[i + 1])) THEN <<i>> ELSE <<>>)
         \o slick_matches(trks, q, i + 1)

\* MainWindow.refresh: the list shows the matches in registry order, the
\* order is those matches, shuffled when shuffle is on; pos is not touched.
slick_refresh(w) ==
    LET rows == slick_matches(w.tracks, Lower(w.text), 0) IN
    {[w EXCEPT !.rows = rows, !.order = o] :
        o \in IF w.shuffle THEN Shuffles(rows) ELSE {rows}}

\* MainWindow._play: order[pos] with Python's indexing (a negative pos
\* counts from the end, a pos outside -len..len-1 raises IndexError).
slick_play(w) ==
    LET n == Len(w.order) IN
    IF w.pos >= n \/ w.pos < 0 - n THEN [w EXCEPT !.raised = TRUE]
    ELSE LET idx == w.order[(IF w.pos < 0 THEN n + w.pos ELSE w.pos) + 1] IN
         [w EXCEPT !.effects = << <<"load", w.tracks[idx + 1].path>>, <<"play">>,
                                  <<"btn_play", "Pause">> >>]

\* MainWindow.play_selected with list.currentRow() = row
slick_play_selected(w, row) ==
    IF row >= 0 THEN slick_play([w EXCEPT !.pos = row]) ELSE w

\* MainWindow.toggle with engine.playing() = playing
slick_toggle(w, playing) ==
    IF playing
    THEN [w EXCEPT !.effects = << <<"pause">>, <<"btn_play", "Play">> >>]
    ELSE IF w.pos < 0 /\ w.order # <<>>
    THEN slick_play([w EXCEPT !.pos = 0])
    ELSE [w EXCEPT !.effects = << <<"play">>, <<"btn_play", "Pause">> >>]

\* MainWindow.next, the Next button and the engine's on_end alike
slick_next(w) ==
    IF w.order = <<>> THEN w
    ELSE IF w.repeat_one THEN slick_play(w)
    ELSE IF w.pos + 1 >= Len(w.order)
    THEN IF ~w.repeat_all THEN [w EXCEPT !.pos = w.pos + 1]
         ELSE slick_play([w EXCEPT !.pos = 0])
    ELSE slick_play([w EXCEPT !.pos = w.pos + 1])

\* MainWindow.prev
slick_prev(w) ==
    IF w.order = <<>> THEN w
    ELSE slick_play([w EXCEPT !.pos = IF w.pos - 1 > 0 THEN w.pos - 1 ELSE 0])

\* MainWindow._opts with the three check boxes reading (sh, ra, ro)
slick_opts(w, sh, ra, ro) ==
    slick_refresh([w EXCEPT !.shuffle = sh, !.repeat_all = ra, !.repeat_one = ro])

\* A handler of the slick window ends in state w
SlickCommit(op, w) ==
    /\ ~slick.raised
    /\ slick' = [w EXCEPT !.lastOp = op]
    /\ UNCHANGED <<variant, tracks, query, visible_indices, play_order,
                   play_pos, history, flags, lastOp, effects, nextTrace,
                   timer, tts, end_thread, before_next, watch>>

Start(w) == [w EXCEPT !.effects = <<>>]

\* btn_add.clicked -> add_files
SlickAddFiles ==
    \E paths \in SlickPaths :
        /\ Len(slick.tracks) + Len(paths) <= MaxSlickTracks
        /\ \E trks \in slick_add_all(slick.tracks, paths) :
               \E w \in slick_refresh([Start(slick) EXCEPT !.tracks = trks]) :
                   SlickCommit("add_files", w)

\* search.textChanged -> refresh
SlickSearchChanged ==
    \E text \in Queries \ {slick.text} :
        \E w \in slick_refresh([Start(slick) EXCEPT !.text = text]) :
            SlickCommit("refresh", w)

\* chk_shuffle / chk_repeat / chk_one .stateChanged -> _opts, one box toggled
SlickOpts ==
    \E box \in {"shuffle", "repeat_all", "repeat_one"} :
        \E w \in slick_opts(Start(slick),
                            slick.shuffle # (box = "shuffle"),
                            slick.repeat_all # (box = "repeat_all"),
                            slick.repeat_one # (box = "repeat_one")) :
            SlickCommit("opts", w)

\* list.itemDoubleClicked -> play_selected
SlickPlaySelected ==
    \E row \in 0..(Len(slick.rows) - 1) :
        SlickCommit("play_selected", slick_play_selected(Start(slick), row))

\* btn_play.clicked, Space, tray -> toggle
SlickToggle ==
    \E playing \in BOOLEAN :
        SlickCommit("toggle", slick_toggle(Start(slick), playing))

\* btn_next.clicked, Right, tray, and engine.on_end -> next
SlickNext ==
    /\ slick.pos < MaxSlickPos
    /\ SlickCommit("next", slick_next(Start(slick)))

\* btn_prev.clicked, Left -> prev
SlickPrev == SlickCommit("prev", slick_prev(Start(slick)))

NextSlick ==
    \/ SlickAddFiles
    \/ SlickSearchChanged
    \/ SlickOpts
    \/ SlickPlaySelected
    \/ SlickToggle
    \/ SlickNext
    \/ SlickPrev

SpecSlick == Init /\ [][NextSlick]_vars

\* ----------------------------------------------------------------- claims
\* p and q hold the same elements, each as often in p as in q
IsPermutationOf(p, q) ==
    /\ Len(p) = Len(q)
    /\ \E f \in Permutations(1..Len(q)) : \A i \in 1..Len(q) : p[i] = q[f[i]]

\* The effects begin with loading and playing registry entry idx of trks.
LoadsAndPlays(eff, trks, idx) ==
    /\ Len(eff) >= 2
    /\ eff[1] = <<"load_path", trks[idx + 1].path>>
    /\ eff[2] = <<"play">>

\* C1: in every reachable state play_order is a permutation of
\* visible_indices: the same elements, none lost and none duplicated,
\* with shuffle on or off.
C1_PlayOrderPermutesVisible ==
    /\ IsPermutationOf(play_order, visible_indices)
    /\ \A i, j \in 1..Len(play_order) : play_order[i] = play_order[j] => i = j
    /\ ~shuffle => play_order = visible_indices

\* C1 witness: a shuffled order of three visible tracks that differs from
\* the filter view.
C1_Witness ==
    /\ shuffle
    /\ Len(visible_indices) = 3
    /\ play_order # visible_indices

C3_NoEqualPaths ==
    \A i, j \in 1..Len(tracks) : tracks[i].path = tracks[j].path => i = j

\* C3 witness: both files on disk have been imported.
C3_Witness ==
    /\ lastOp = "add_paths"
    /\ {tracks[i].path : i \in 1..Len(tracks)} = Files

\* C4: while repeat_one is true, a user Next and a natural end of track
\* both replay the track that was current, and leave the cursor where it
\* was, for every repeat_all, shuffle and cursor position.
C4_RepeatOneReplays ==
    [][(/\ repeat_one
        /\ lastOp' \in {"play_next", "track_end"}
        /\ current_track_index(play_order, play_pos) # -1)
       => (/\ play_pos' = play_pos
           /\ play_order' = play_order
           /\ LoadsAndPlays(effects', tracks,
                            current_track_index(play_order, play_pos)))]_vars

\* C4 witness: under repeat_one and shuffle an end of track replayed the
\* track at offset 1.
C4_Witness ==
    /\ repeat_one
    /\ shuffle
    /\ lastOp = "track_end"
    /\ play_pos = 1
    /\ LoadsAndPlays(effects, tracks, play_order[2])

\* C5: with repeat_all true, repeat_one false and the cursor at the last
\* offset of a non-empty play order, play_next sets the cursor to 0 and
\* loads and plays play_order[0].
C5_WrapToFirst ==
    [][(/\ lastOp' = "play_next"
        /\ repeat_all /\ ~repeat_one
        /\ play_order # <<>>
        /\ play_pos = Len(play_order) - 1)
       => (/\ play_pos' = 0
           /\ play_order' = play_order
           /\ LoadsAndPlays(effects', tracks, play_order[1]))]_vars

\* C5 witness: play_next has just wrapped a three-track order: the cursor
\* is at 0 and the index it pushed is the one at the last offset.
C5_Witness ==
    /\ lastOp = "play_next"
    /\ repeat_all /\ ~repeat_one
    /\ Len(play_order) = 3
    /\ play_pos = 0
    /\ history # <<>>
    /\ history[Len(history)] = play_order[3]
    /\ LoadsAndPlays(effects, tracks, play_order[1])

\* C6: with repeat_all and repeat_one false and the cursor at the last
\* offset, play_next tells the engine to stop, loads and plays nothing,
\* sets the play/pause button to "Play" and leaves the cursor at the last
\* offset.
C6_StopAtEnd ==
    [][(/\ lastOp' = "play_next"
        /\ ~repeat_all /\ ~repeat_one
        /\ play_order # <<>>
        /\ play_pos = Len(play_order) - 1)
       => (/\ effects' = << <<"stop">>, <<"btn_play_pause", "Play">> >>
           /\ play_pos' = play_pos
           /\ play_pos' = Len(play_order') - 1)]_vars

\* C6 witness: play_next has just stopped the engine at the end of a
\* three-track order.
C6_Witness ==
    /\ lastOp = "play_next"
    /\ ~repeat_all /\ ~repeat_one
    /\ Len(play_order) = 3
    /\ play_pos = 2
    /\ effects = << <<"stop">>, <<"btn_play_pause", "Play">> >>

\* C7: _rebuild_play_order(keep_current) leaves the cursor at -1 when the
\* new play order is empty; with keep_current true (filter change, shuffle
\* toggle) at the new offset of the index that was current before, when the
\* new order holds it, and at 0 otherwise; with keep_current false (the
\* rebuild that ends an import or a load) at 0.
C7_RebuildCursor ==
    [][LET cur == current_track_index(play_order, play_pos) IN
       /\ lastOp' \in {"apply_filter", "on_shuffle_changed"}
          => IF play_order' = <<>> THEN play_pos' = -1
             ELSE IF InSeq(cur, play_order')
                  THEN /\ play_pos' \in 0..(Len(play_order') - 1)
                       /\ play_order'[play_pos' + 1] = cur
                  ELSE play_pos' = 0
       /\ (lastOp' \in {"add_paths", "load_playlist"} /\ tracks' # tracks)
          => play_pos' = IF play_order' = <<>> THEN -1 ELSE 0]_vars

\* C7 witness: narrowing the filter from three visible tracks to two moved
\* the current track (registry index 2) from offset 2 to offset 1.
C7_Witness ==
    /\ lastOp = "apply_filter"
    /\ ~shuffle
    /\ Len(tracks) = 3
    /\ play_order = <<1, 2>>
    /\ play_pos = 1

\* The step is a second _apply_filter right after a first one, and the
\* filter view it computes is the one the first computed: two successive
\* _rebuild_play_order(True) calls on unchanged inputs.
SecondRebuild ==
    /\ lastOp = "apply_filter"
    /\ lastOp' = "apply_filter"
    /\ visible_indices' = visible_indices

\* C8 as claimed: the second of two successive rebuilds with keep_current
\* leaves play_pos where the first left it, shuffle on or off.
C8_SamePosition ==
    [][SecondRebuild => play_pos' = play_pos]_vars

\* C8 amended: the second rebuild leaves the same track current; the
\* offset and the order are unchanged when shuffle is off.
C8_SameCurrentTrack ==
    [][SecondRebuild
       => (/\ current_track_index(play_order', play_pos')
                = current_track_index(play_order, play_pos)
           /\ ~shuffle => (play_pos' = play_pos /\ play_order' = play_order))]_vars

\* C8 witness: under shuffle, a filter change that returned to the empty
\* query on a registry whose three tracks all match the other query too, so
\* that the rebuild ran again on the same filter view; the current track is
\* at the last offset.
C8_Witness ==
    /\ lastOp = "apply_filter"
    /\ shuffle
    /\ query = <<>>
    /\ Len(tracks) = 3
    /\ apply_filter_indices(tracks, <<" ", "J">>) = visible_indices
    /\ play_pos = 2

\* C9: with shuffle off, repeat_all true and repeat_one false, a run of
\* consecutive play_next calls that starts at offset 0 of a play order of
\* length n makes current play_order[1], ..., play_order[n-1],
\* play_order[0] in this order, each loaded and played, and after n calls
\* the cursor is back at 0.
C9_CycleInOrder ==
    (/\ ~shuffle /\ repeat_all /\ ~repeat_one
     /\ nextTrace # <<>>)
    => LET n == Len(play_order)
           k == Len(nextTrace)
       IN  /\ k <= n
           /\ \A i \in 1..k : nextTrace[i] = play_order[(i % n) + 1]
           /\ play_pos = k % n
           /\ LoadsAndPlays(effects, tracks, play_order[(k % n) + 1])

\* C9 witness: a complete cycle over at least two tracks.
C9_Witness ==
    /\ ~shuffle /\ repeat_all /\ ~repeat_one
    /\ Len(play_order) >= 2
    /\ Len(nextTrace) = Len(play_order)
    /\ play_pos = 0

\* One step of the machine, read as C10 reads play_prev.
PrevWithHistoryStep ==
    (/\ lastOp' = "play_prev"
     /\ play_order # <<>>
     /\ history # <<>>)
    => LET idx == history[Len(history)] IN
       /\ history' = SubSeq(history, 1, Len(history) - 1)
       /\ play_order' = play_order
       /\ IF InSeq(idx, play_order)
          THEN /\ current_track_index(play_order', play_pos') = idx
               /\ LoadsAndPlays(effects', tracks, idx)
          ELSE play_pos' = IF play_pos - 1 >= 0 THEN play_pos - 1
                           ELSE IF repeat_all THEN Len(play_order) - 1
                           ELSE 0

\* C10: play_prev with a non-empty history pops exactly one entry; when the
\* popped index is in play_order the cursor jumps to its offset and that
\* track is played; when it is not, the cursor is decremented from where it
\* was (wrapping under repeat_all, else staying at 0) and the play order is
\* not rebuilt.
C10_PrevUsesHistory == [][PrevWithHistoryStep]_vars

\* The same statement for the autoplay variant alone, whose play_prev tests
\* the popped index itself.
PrevUsesHistoryAutoplay ==
    [][variant = "autoplay" => PrevWithHistoryStep]_vars

\* C11: play_prev with an empty history and a non-empty play order moves
\* the cursor one offset back; from offset 0 it wraps to the last offset
\* when repeat_all is true and stays at 0 when it is false; the track at the
\* resulting offset is loaded and played, and the play order is untouched.
C11_PrevDecrements ==
    [][(/\ lastOp' = "play_prev"
        /\ play_order # <<>>
        /\ history = <<>>)
       => (/\ play_order' = play_order
           /\ history' = <<>>
           /\ play_pos' = IF play_pos - 1 >= 0 THEN play_pos - 1
                           ELSE IF repeat_all THEN Len(play_order) - 1
                           ELSE 0
           /\ LoadsAndPlays(effects', tracks, play_order[play_pos' + 1]))]_vars

\* C11 witness: with repeat_all on and no history, play_prev has left the
\* cursor at the last offset of a three-track order and played that track.
C11_Witness ==
    /\ lastOp = "play_prev"
    /\ repeat_all
    /\ history = <<>>
    /\ nextTrace = <<>>
    /\ Len(play_order) = 3
    /\ play_pos = 2
    /\ LoadsAndPlays(effects, tracks, play_order[3])

\* C12: in every reachable state, double-clicking a row r of the list with
\* 0 <= r < len(visible_indices) makes visible_indices[r] the current track
\* and loads and plays exactly that track, shuffle on or off; a row outside
\* that range changes nothing and issues no command.
C12_DoubleClickPlaysRow ==
    \A row \in -1..Len(visible_indices) :
        \A s \in on_item_double_clicked(row) :
            IF 0 <= row /\ row < Len(visible_indices)
            THEN LET idx == visible_indices[row + 1] IN
                 /\ s.play_pos \in 0..(Len(s.play_order) - 1)
                 /\ s.play_order[s.play_pos + 1] = idx
                 /\ s.effects = << <<"load_path", tracks[idx + 1].path>>,
                                   <<"play">>, <<"btn_play_pause", "Pause">> >>
            ELSE /\ s.play_order = play_order
                 /\ s.play_pos = play_pos
                 /\ s.history = history
                 /\ s.effects = <<>>

\* C12 witness: under shuffle and a filter that hides registry index 0, a
\* double-click has made the second row's track (registry index 2) current
\* at offset 0 of the shuffled order and played it.
C12_Witness ==
    /\ lastOp = "on_item_double_clicked"
    /\ shuffle
    /\ visible_indices = <<1, 2>>
    /\ play_order = <<2, 1>>
    /\ play_pos = 0
    /\ LoadsAndPlays(effects, tracks, 2)

\* C13: toggling shuffle, on or off, empties the history and rebuilds the
\* play order over the same visible tracks with the track that was current
\* still current; a play_prev that comes right after the toggle leaves the
\* play order alone and moves by cursor decrement (wrapping under
\* repeat_all, else staying at 0), whatever was pushed before the toggle.
C13_ShuffleToggleForgetsHistory ==
    [][/\ lastOp' = "on_shuffle_changed"
          => (/\ shuffle' = ~shuffle
              /\ history' = <<>>
              /\ IsPermutationOf(play_order', play_order)
              /\ current_track_index(play_order', play_pos')
                   = current_track_index(play_order, play_pos))
       /\ (lastOp = "on_shuffle_changed" /\ lastOp' = "play_prev"
               /\ play_order # <<>>)
          => (/\ play_order' = play_order
              /\ history' = <<>>
              /\ play_pos' = IF play_pos - 1 >= 0 THEN play_pos - 1
                              ELSE IF repeat_all THEN Len(play_order) - 1
                              ELSE 0)]_vars

\* C13 witness: shuffle has just been switched off over three visible
\* tracks: the history is empty, the order is the filter view again and the
\* cursor is on registry index 1.
C13_Witness ==
    /\ lastOp = "on_shuffle_changed"
    /\ ~shuffle
    /\ history = <<>>
    /\ play_order = <<0, 1, 2>>
    /\ play_pos = 1

\* The step leaves the registry, the filter view and the sequencer as they
\* were and tells the engine nothing.
SessionUntouched ==
    /\ tracks' = tracks
    /\ visible_indices' = visible_indices
    /\ play_order' = play_order
    /\ play_pos' = play_pos
    /\ history' = history
    /\ \A i \in 1..Len(effects') :
           effects'[i][1] \notin {"load_path", "play", "pause", "stop"}

\* C14: toggling repeat_all or repeat_one flips that flag and nothing else:
\* tracks, visible_indices, play_order, play_pos, history, shuffle and the
\* other repeat flag are unchanged and no engine command is issued.
C14_RepeatTogglesOnlyFlag ==
    [][/\ lastOp' = "on_repeat_all_changed"
          => (/\ repeat_all' = ~repeat_all
              /\ repeat_one' = repeat_one
              /\ shuffle' = shuffle
              /\ SessionUntouched)
       /\ lastOp' = "on_repeat_one_changed"
          => (/\ repeat_one' = ~repeat_one
              /\ repeat_all' = repeat_all
              /\ shuffle' = shuffle
              /\ SessionUntouched)]_vars

\* C14 witness: repeat_one has just been switched on in the middle of a
\* shuffled session with a history, repeat_all staying on.
C14_Witness ==
    /\ lastOp = "on_repeat_one_changed"
    /\ repeat_one /\ repeat_all
    /\ shuffle
    /\ history # <<>>
    /\ play_pos = 1
    /\ effects = <<>>

\* Registry entry i of the session matches the search text: the text,
\* stripped and lower-cased, is empty or occurs in the lower-cased
\* "title artist album" of the entry.
Matches(i, text) ==
    LET q == Lower(Strip(text))
        t == tracks[i + 1]
    IN  \/ q = <<>>
        \/ Contains(q, Lower(t.title) \o <<" ">> \o Lower(t.artist)
                          \o <<" ">> \o Lower(t.album))

\* C15: in every reachable state visible_indices lists exactly the registry
\* indices whose lower-cased "title artist album" contains the lower-cased,
\* stripped query, in strictly increasing order; under an empty query it
\* lists every index in registry order; it is a function of the registry
\* and the query alone, whatever the cursor, shuffle flag and history.
C15_FilterIsExactMatchSet ==
    /\ \A i \in 0..(Len(tracks) - 1) :
           InSeq(i, visible_indices) <=> Matches(i, query)
    /\ \A k \in 1..Len(visible_indices) :
           visible_indices[k] \in 0..(Len(tracks) - 1)
    /\ \A k \in 1..(Len(visible_indices) - 1) :
           visible_indices[k] < visible_indices[k + 1]
    /\ query = <<>> => visible_indices = [k \in 1..Len(tracks) |-> k - 1]

\* C15 witness: the query " J" has just been applied to a registry of three
\* tracks of which the first has no tags: the view holds indices 1 and 2,
\* matched through the album "Jz" and the title "j".
C15_Witness ==
    /\ lastOp = "apply_filter"
    /\ query = <<" ", "J">>
    /\ Len(tracks) = 3
    /\ tracks[1].album = <<>>
    /\ tracks[2].album = <<"J", "z">>
    /\ tracks[3].title = <<"j">>
    /\ visible_indices = <<1, 2>>

\* The path, as spelled, names no file or names a file the registry holds
\* already under some spelling.
MissingOrPresent(raw) ==
    \/ PathStr(raw) \notin Files
    \/ \E i \in 1..Len(tracks) : PathStr(tracks[i].path) = PathStr(raw)

\* C20: in every reachable state, an import all of whose paths are missing
\* from disk or already in the registry has one outcome only: tracks,
\* visible_indices, play_order (not reshuffled), play_pos and history are
\* as before and nothing is told to the engine.
C20_DuplicateImportSkipped ==
    \A paths \in Batches :
        (\A k \in 1..Len(paths) : MissingOrPresent(paths[k]))
        => add_paths(paths)
             = {[tracks |-> tracks, visible_indices |-> visible_indices,
                 seq |-> [play_order |-> play_order, play_pos |-> play_pos,
                          history |-> history, effects |-> <<>>]]}

\* C20 witness: an import has just left a shuffled three-track session as
\* it was, with the cursor at the last offset and a history (an import that
\* adds a track leaves the cursor at 0).
C20_Witness ==
    /\ lastOp = "add_paths"
    /\ shuffle
    /\ Len(tracks) = 3
    /\ play_order # visible_indices
    /\ play_pos = 2
    /\ history # <<>>
    /\ effects = <<>>

\* The entries of registry trks whose file is among `files`, in order.
StillThere(trks, files) ==
    SelectSeq(trks, LAMBDA t : PathStr(t.path) \in files)

KeptEntry(e) ==
    /\ "path" \in DOMAIN e
    /\ e.path # ""
    /\ PathStr(e.path) \in Files

\* The effects hold no message box.
NoDialog(eff) ==
    \A k \in 1..Len(eff) : eff[k][1] \notin {"information", "critical"}

\* C17: whenever load_playlist has just run: for every document, the load
\* loop yields one Track per entry whose path is non-empty and exists, in
\* document order, and none for the other entries; each Track has the
\* entry's path as written, its title, artist and album or the empty string
\* where the key is missing, and its duration_ms or -1; and a load that
\* showed no message box left as registry the Tracks of a document that
\* has such an entry.
C17_LoadKeepsExistingEntries ==
    lastOp = "load_playlist"
    => /\ \A doc \in Docs :
              LET kept == SelectSeq(doc, KeptEntry)
                  loaded == loaded_tracks(doc)
              IN  /\ Len(loaded) = Len(kept)
                  /\ \A i \in 1..Len(kept) :
                         LET e == kept[i] IN
                         /\ loaded[i].path = e.path
                         /\ loaded[i].title
                              = IF "title" \in DOMAIN e THEN e.title ELSE <<>>
                         /\ loaded[i].artist
                              = IF "artist" \in DOMAIN e THEN e.artist ELSE <<>>
                         /\ loaded[i].album
                              = IF "album" \in DOMAIN e THEN e.album ELSE <<>>
                         /\ loaded[i].duration_ms
                              = IF "duration_ms" \in DOMAIN e
                                THEN e.duration_ms ELSE -1
       /\ NoDialog(effects)
          => \E doc \in Docs :
                 /\ SelectSeq(doc, KeptEntry) # <<>>
                 /\ tracks = loaded_tracks(doc)

\* C17 witness: a load has just left a registry of one entry spelled "./a"
\* with the defaults for title, artist, album and duration_ms, and showed
\* no message box.
C17_Witness ==
    /\ lastOp = "load_playlist"
    /\ tracks = <<Track("./a", <<>>, <<>>, <<>>, -1)>>
    /\ NoDialog(effects)

\* C18: whenever a load_playlist has just succeeded (it showed no message
\* box), the registry is the surviving entries of a document and nothing
\* else, the history is empty, visible_indices is the filter view of the
\* new registry under the current query, the play order permutes that view
\* (and equals it with shuffle off), and the cursor is at 0, or at -1 when
\* the query matches none of the new tracks.
C18_LoadReplacesSession ==
    (lastOp = "load_playlist" /\ NoDialog(effects))
    => LET matching == {i \in 0..(Len(tracks) - 1) :
                           \/ Lower(Strip(query)) = <<>>
                           \/ Contains(Lower(Strip(query)), Hay(tracks[i + 1]))}
       IN  /\ \E doc \in Docs :
                  LET kept == SelectSeq(doc, KeptEntry) IN
                  /\ kept # <<>>
                  /\ Len(tracks) = Len(kept)
                  /\ \A i \in 1..Len(kept) : tracks[i].path = kept[i].path
           /\ history = <<>>
           /\ visible_indices = apply_filter_indices(tracks, query)
           /\ {visible_indices[k] : k \in 1..Len(visible_indices)} = matching
           /\ IsPermutationOf(play_order, visible_indices)
           /\ ~shuffle => play_order = visible_indices
           /\ play_pos = IF matching = {} THEN -1 ELSE 0

\* C18 witness: with the query " J" in the search box, a load has just
\* replaced the registry by one untagged entry that the query does not
\* match: history and play order are empty and the cursor is at -1.
C18_Witness ==
    /\ lastOp = "load_playlist"
    /\ query = <<" ", "J">>
    /\ tracks = <<Track("./a", <<>>, <<>>, <<>>, -1)>>
    /\ visible_indices = <<>>
    /\ play_order = <<>>
    /\ play_pos = -1
    /\ history = <<>>
    /\ effects = <<>>

\* The session as it is, with `dialog` the one message box shown.
SessionWith(dialog) ==
    [tracks |-> tracks, visible_indices |-> visible_indices,
     seq |-> [play_order |-> play_order, play_pos |-> play_pos,
              history |-> history, effects |-> <<dialog>>]]

\* C19: in every reachable state, a load_playlist whose file cannot be
\* read, whose file is not JSON, or whose document has no surviving entry
\* has one outcome only: tracks, visible_indices, play_order, play_pos and
\* history as they were, no engine command, and one message box that is
\* different for each of the three; a save_playlist whose write fails
\* likewise leaves the session as it was behind one message box.
C19_FailedPersistenceKeepsSession ==
    /\ load_playlist_from([kind |-> "unreadable"])
         = {SessionWith(<<"critical", "Load failed">>)}
    /\ load_playlist_from([kind |-> "malformed"])
         = {SessionWith(<<"critical", "Invalid JSON">>)}
    /\ \A doc \in Docs :
           SelectSeq(doc, KeptEntry) = <<>>
           => load_playlist_from([kind |-> "document", tracks |-> doc])
                = {SessionWith(<<"information", "Nothing loaded">>)}
    /\ tracks # <<>>
       => /\ save_playlist(FALSE).written = <<>>
          /\ [tracks |-> save_playlist(FALSE).tracks,
              visible_indices |-> save_playlist(FALSE).visible_indices,
              seq |-> save_playlist(FALSE).seq]
               = SessionWith(<<"critical", "Save failed">>)

\* C19 witness: a load of a file that is not JSON has just been refused in
\* a shuffled three-track session with a history and the cursor at the last
\* offset, all of which are still there.
C19_Witness ==
    /\ lastOp = "load_playlist"
    /\ effects = << <<"critical", "Invalid JSON">> >>
    /\ shuffle
    /\ Len(tracks) = 3
    /\ play_order # visible_indices
    /\ play_pos = 2
    /\ history # <<>>

\* The effects hold no command to the engine.
NoEngineCommand(eff) ==
    \A k \in 1..Len(eff) :
        eff[k][1] \notin {"load_path", "play", "pause", "stop", "set_time"}

\* C21: in every reachable state without a current track (empty play
\* order, cursor at -1), Next, Prev, the play/pause toggle and
\* _load_current_and_play each end normally, tell the engine nothing, and
\* leave play_order, play_pos and history as they were.
C21_NoCurrentTrackNoOp ==
    (play_order = <<>> /\ play_pos = -1)
    => /\ load_current_and_play(tracks, play_order, play_pos) = <<>>
       /\ \A s \in {play_next} \cup play_prev
                    \cup {toggle_play_pause(playing) : playing \in BOOLEAN} :
              /\ s.play_order = play_order
              /\ s.play_pos = play_pos
              /\ s.history = history
              /\ NoEngineCommand(s.effects)

\* C21 witness: the play/pause toggle has just run on a session whose
\* registry is not empty but whose filter hides every track: nothing was
\* told to the engine and the cursor is still at -1.
C21_Witness ==
    /\ lastOp = "toggle_play_pause"
    /\ tracks # <<>>
    /\ play_order = <<>>
    /\ play_pos = -1
    /\ NoEngineCommand(effects)

\* C27: in every reachable state, sessions that load playlists included,
\* path is a unique key of the registry: there are as many different paths
\* as entries.
C27_PathIsUniqueKey ==
    Cardinality({tracks[i].path : i \in 1..Len(tracks)}) = Len(tracks)

\* C25: in the autoplay variant, between two consecutive calls of
\* _load_current_and_play the near-end poll schedules the end-of-track
\* callback at most once, however many ticks see 700 ms or less remaining.
C25_AtMostOncePerLoad ==
    variant = "autoplay" => scheduled_since_load <= 1

\* The second half of C25: a tick schedules nothing while the user is
\* seeking, or when the reported length or position is not positive.
C25_NothingWhileSeekingOrUnknown ==
    \A length \in {-1, 0} \cup Lengths : \A pos \in Positions :
        (user_seeking \/ length <= 0 \/ pos <= 0)
        => /\ ~tick(length, pos).schedules
           /\ tick(length, pos).fired = ended_fired_for_track_idx

\* C26: releasing the seek slider (full and autoplay) issues a seek only
\* when a positive duration is known, reported by the engine or, in the
\* autoplay variant, cached from an earlier tick; the target is the slider's
\* thousandth part of that duration, between 0 and the duration; with no
\* positive duration known the engine is told nothing.
C26_SeekOnlyWithKnownDuration ==
    \A value \in SliderValues : \A length \in {-1, 0} \cup Lengths :
        \A eff \in apply_seek_from_slider(value, length) :
            LET len == IF length > 0 THEN length
                       ELSE IF variant = "autoplay" THEN last_known_length_ms
                       ELSE length
            IN IF len <= 0 THEN eff = <<>>
               ELSE /\ Len(eff) = 1
                    /\ eff[1][1] = "set_time"
                    /\ 0 <= eff[1][2] /\ eff[1][2] <= len
                    /\ eff[1][2] * 1000 <= value * len
                    /\ value * len < (eff[1][2] + 2) * 1000
                    /\ value = 0 => eff[1][2] = 0
                    /\ value = 1000 => eff[1][2] = len

\* C26 witness: the slider was released at its middle while the engine,
\* stopped, reported no duration; the seek went to the middle of the
\* duration cached by an earlier tick.
C26_Witness ==
    /\ lastOp = "on_seek_end"
    /\ engine_state = "stopped"
    /\ last_known_length_ms = 999
    /\ effects = << <<"set_time", 499>> >>

\* C22: announcement requests are coalesced: a phrase for which no speech
\* subprocess had been launched when a later say() was called is never
\* spoken, and the queue holds at most one phrase, the latest request.
C22_Coalesced ==
    /\ \A k \in 1..Len(tts.procs) : tts.procs[k].phrase \notin tts.dropped
    /\ LET pending == SelectSeq(tts.q, LAMBDA x : x # <<>>) IN
       /\ Len(pending) <= 1
       /\ pending # <<>> => pending[1] = tts.requests[Len(tts.requests)]

\* The queue part of C22 alone: at most one phrase waits in the queue, and
\* it is the latest request.
C22_OnePending ==
    LET pending == SelectSeq(tts.q, LAMBDA x : x # <<>>) IN
    /\ Len(pending) <= 1
    /\ pending # <<>> => pending[1] = tts.requests[Len(tts.requests)]

\* C23: once shutdown() has returned no speech subprocess is running, under
\* every interleaving of the UI thread with the worker (a subprocess
\* launched later would be running in the state after its launch).
C23_NothingAfterShutdown ==
    tts.ui = "returned"
    => \A k \in 1..Len(tts.procs) : tts.procs[k].state # "running"

\* C24: the end-of-track handler is marshaled onto the controller thread:
\* no handler of the UI thread (Next, Prev, double-click, filter change,
\* import) runs while the end-of-track handler is between two of its
\* statements on the engine's event thread.
C24_EndHandlerMarshaled ==
    [][end_thread' = end_thread => end_thread.pc = "idle"]_vars

\* What the interleaving costs: the cursor stays inside the play order.
C24_CursorStaysInRange ==
    play_pos < Len(play_order) \/ (play_order = <<>> /\ play_pos <= 0)

\* The slick window's effects load and play registry entry idx of trks.
LoadsAndPlaysSlick(eff, trks, idx) ==
    /\ Len(eff) >= 2
    /\ eff[1] = <<"load", trks[idx + 1].path>>
    /\ eff[2] = <<"play">>

\* C28: in the slick variant every reachable state has -1 <= pos <
\* len(order), and pos = -1 when the order is empty.
C28_SlickCursorInRange ==
    /\ -1 <= slick.pos
    /\ slick.pos < Len(slick.order)
    /\ slick.order = <<>> => slick.pos = -1

\* C29: in the slick variant a double-click on list row r makes the track
\* shown at row r the current one (order[pos] is its registry index) and
\* loads and plays it, shuffle on or off.
C29_SlickDoubleClickPlaysRow ==
    \A r \in 0..(Len(slick.rows) - 1) :
        LET w == slick_play_selected(Start(slick), r) IN
        /\ ~w.raised
        /\ w.pos \in 0..(Len(w.order) - 1)
        /\ w.order[w.pos + 1] = slick.rows[r + 1]
        /\ LoadsAndPlaysSlick(w.effects, slick.tracks, slick.rows[r + 1])

\* C30: in the slick variant toggling Repeat All or Repeat 1 changes that
\* flag only: order and pos stay as they were, shuffle on or off.
C30_SlickRepeatTogglesKeepOrder ==
    \A box \in {"repeat_all", "repeat_one"} :
        \A w \in slick_opts(Start(slick), slick.shuffle,
                            slick.repeat_all # (box = "repeat_all"),
                            slick.repeat_one # (box = "repeat_one")) :
            /\ w.order = slick.order
            /\ w.pos = slick.pos

\* C31: play_next with repeat_one true leaves the history unchanged, in
\* both variants: Next and end-of-track events under repeat-one never grow
\* the history.
C31_RepeatOneKeepsHistory ==
    repeat_one => /\ play_next.history = history
                  /\ track_end.history = history

\* An import that added at least one track to a registry that was not empty
ImportIntoSession ==
    /\ lastOp' = "add_paths"
    /\ Len(tracks') > Len(tracks)
    /\ tracks # <<>>

\* C32: an import that adds at least one track to a non-empty registry
\* while a track is current leaves that track current (play_order[play_pos]
\* is the same registry index as before), shuffle on or off.
C32_ImportKeepsCurrent ==
    [][(ImportIntoSession /\ current_track_index(play_order, play_pos) # -1)
       => current_track_index(play_order', play_pos')
          = current_track_index(play_order, play_pos)]_vars

\* What such an import does instead: it rebuilds the play order without
\* keeping the current track, so the cursor is at offset 0 of the rebuilt
\* order, or at -1 when that order is empty, and nothing is loaded.
C32_ImportResetsCursor ==
    [][ImportIntoSession
       => /\ play_pos' = IF play_order' = <<>> THEN -1 ELSE 0
          /\ IsPermutationOf(play_order', visible_indices')
          /\ effects' = <<>>]_vars

\* Every element of seq is an index into a registry of n entries
ValidIndices(seq, n) == \A k \in 1..Len(seq) : seq[k] \in 0..(n - 1)

\* C33: in every reachable state every element of visible_indices,
\* play_order and history is a valid registry index, so that
\* _load_current_and_play's tracks[idx] is in range, also after a playlist
\* load that leaves a shorter registry.
C33_IndicesValid ==
    /\ ValidIndices(visible_indices, Len(tracks))
    /\ ValidIndices(play_order, Len(tracks))
    /\ ValidIndices(history, Len(tracks))
    /\ current_track_index(play_order, play_pos) \in -1..(Len(tracks) - 1)

\* C33 witness: a playlist of a single track has just been loaded without
\* a dialog; the filter view and the play order hold index 0 only and the
\* history is empty.
C33_Witness ==
    /\ lastOp = "load_playlist"
    /\ NoDialog(effects)
    /\ Len(tracks) = 1
    /\ visible_indices = <<0>>
    /\ play_order = <<0>>
    /\ history = <<>>

\* play_prev has just run directly after a play_next that found a current
\* track, with repeat_one off
PrevAfterNext ==
    /\ lastOp = "play_next"
    /\ lastOp' = "play_prev"
    /\ before_next.valid
    /\ before_next.cur # -1
    /\ ~repeat_one

\* C34: with repeat_one false and a current track present, play_next
\* followed immediately by play_prev makes the track current that was
\* current before play_next and leaves the history as it was before
\* play_next, both when play_next advanced and when it reported Stopped.
C34_NextThenPrevRoundTrip ==
    [][PrevAfterNext
       => /\ current_track_index(play_order', play_pos') = before_next.cur
          /\ history' = before_next.history]_vars

\* C34 witness: play_next has reported Stopped at the end of a play order
\* of two tracks, from a history that was not empty; play_prev runs next.
C34_Witness ==
    /\ lastOp = "play_next"
    /\ before_next.valid
    /\ before_next.cur # -1
    /\ before_next.history # <<>>
    /\ ~repeat_one
    /\ ~repeat_all
    /\ Len(play_order) = 2
    /\ play_pos = 1
    /\ effects # <<>>
    /\ effects[1] = <<"stop">>

\* C34 witness of the other case: play_next has advanced the cursor.
C34_WitnessAdvanced ==
    /\ lastOp = "play_next"
    /\ before_next.valid
    /\ before_next.cur # -1
    /\ ~repeat_one
    /\ play_pos = 1
    /\ current_track_index(play_order, play_pos) # before_next.cur

\* C35: in the autoplay variant, whenever the seek handler falls back to
\* the cached _last_known_length_ms because the engine reports a
\* non-positive length, the cached value was recorded for the track the
\* engine holds, never for a track loaded earlier.
C35_CachedLengthOfLoadedTrack ==
    (lastOp = "on_seek_end" /\ watch.fell_back)
    => watch.length_for = watch.loaded

\* C36: in the autoplay variant, the deferred action _go scheduled for
\* track X moves the cursor only if X is still the current track when it
\* runs, so that one natural track end causes at most one track change.
C36_DeferredGoOnlyForScheduledTrack ==
    [][(lastOp' = "track_end" /\ play_pos' # play_pos)
       => watch.go_for = current_track_index(play_order, play_pos)]_vars

\* C37: in the autoplay variant, every playthrough that reaches the
\* near-end threshold (remaining time <= 700 ms, position > 0, no seek in
\* progress) eventually triggers end-of-track handling, unless a load, a
\* stop or a seek ends the playthrough before; also a playthrough that
\* was started with play/pause after play_next reported Stopped.
C37_NearEndEventuallyHandled ==
    watch.near_end ~> (deferred_go \/ lastOp = "track_end" \/ ~watch.near_end)

\* An exception left the handler that ran last
Raised(eff) == \E k \in 1..Len(eff) : eff[k][1] = "raise"

\* C38: load_playlist never ends in an unhandled fault for a document that
\* parses as JSON but does not have the expected shape (top level not an
\* object, "tracks" not a list of objects, a duration_ms that int() does
\* not accept): the outcome is a reported error or "nothing loaded".
C38_WrongShapeHandled ==
    lastOp = "load_playlist" => ~Raised(effects)

\* C39: after shutdown() is called the worker thread of the TTSAnnouncer
\* eventually leaves its loop and terminates, whether it was blocked on
\* the empty queue, held a dequeued phrase or waited on a running speech
\* subprocess, under weak fairness of the worker and with subprocess waits
\* that return.
C39_WorkerTerminatesAfterShutdown ==
    tts.stop_event ~> (tts.worker = "done")

\* C39 witness: shutdown() has been called while the worker waits on a
\* running speech subprocess with another phrase queued.
C39_Witness ==
    /\ tts.stop_event
    /\ tts.ui = "put"
    /\ tts.worker = "waiting"
    /\ tts.procs[tts.waited].state = "running"
    /\ tts.q # <<>>

\* shutdown() has been called while the worker is blocked on the empty queue
C39_WitnessBlocked ==
    /\ tts.stop_event
    /\ tts.ui = "put"
    /\ tts.worker = "get"
    /\ tts.q = <<>>

\* shutdown() has been called while the worker holds a dequeued phrase
C39_WitnessHolding ==
    /\ tts.stop_event
    /\ tts.ui = "put"
    /\ tts.worker \in {"if_stop", "kill_running", "popen"}
    /\ Strip(tts.phrase) # <<>>

\* The worker has terminated after a shutdown() that returned
C39_WitnessDone ==
    /\ tts.ui = "returned"
    /\ tts.worker = "done"
    /\ tts.procs # <<>>

====
